---- MODULE Spec2Model ----
(***************************************************************************)
(* Readiness-gated service wrappers of the proxy's routing stack:          *)
(*   - Pending           (linkerd/app/core/src/proxy/pending.rs)           *)
(*   - profile-concrete  (linkerd/proxy/http/src/profiles/concrete.rs)     *)
(*   - Router            (linkerd/router/src/lib.rs)                       *)
(*   - Insert, orig-proto MakeSvc (readiness pass-through)                 *)
(*   - outbound keys and endpoints (linkerd/app/outbound/src/endpoint.rs), *)
(*     the orig-proto upgrade (.../outbound/src/orig_proto_upgrade.rs)     *)
(*   - the HTTP client factory (linkerd/proxy/http/src/client.rs)          *)
(* Each handler (poll_ready, call, poll, set_forward, set_split) is one    *)
(* action.  What an inner service, a constructor future or the random      *)
(* number generator answers is an input of the action, drawn with \E.      *)
(***************************************************************************)
EXTENDS Integers, Sequences, FiniteSets, TLC

\* ------------------------------------------------------------------ bounds
MaxPending == 1      \* Pending handles MakePending::make hands out in a run
MaxCalls == 2        \* requests forwarded to one inner service in a run
MaxUpdates == 2      \* set_forward / set_split calls on the writer in a run

\* ------------------------------------------------------------- vocabulary
\* What a poll (futures::Poll) answers: Ok(Async::Ready), Ok(Async::NotReady), Err.
PollOutcomes == {"Ready", "NotReady", "Err"}

\* The stacks that can be constructed; one behaviour constructs and drives one
\* of them (they share no state).
Stacks == {"pending", "concrete", "split", "router", "layers", "insert", "key",
           "endpoint", "client"}

\* NameAddr values and WeightedAddr { addr, weight } lists given to set_split.
\* The lists a run draws from: empty, one address (with a positive and with
\* a zero weight), two distinct addresses,
\* a reordering that keeps one address and adds one, a repeated
\* address, a zero weight beside a positive one, and all weights zero.
WA(addr, weight) == [addr |-> addr, weight |-> weight]
AddrLists ==
    { <<>>,
      <<WA("a", 1)>>,
      <<WA("b", 0)>>,
      <<WA("a", 1), WA("b", 2)>>,
      <<WA("b", 2), WA("c", 1)>>,
      <<WA("a", 0), WA("b", 1)>>,
      <<WA("a", 0), WA("b", 0)>>,
      <<WA("a", 1), WA("a", 1)>>,
      <<WA("c", 1), WA("c", 2)>> }

VARIABLES
    stack,      \* which stack this run has constructed
    pending,    \* sequence of Pending handles, in the order make() returned them
    debugBuild, \* whether debug_assert! is compiled in (fixed per build)
    built,      \* log of Make::make calls of the profile writer: built[id] is
                \* the address the service with identity id was built for
    update,     \* the writer (Update): routes, and bookkeeping of its last call
    watch,      \* the watch channel: latest value and its version, the
                \* number of Receivers, and whether the Sender is dropped
    sent,       \* every value the channel has held, oldest first
    reader,     \* the reader (Service): routes, updates.ver, next_split_index
    router,     \* the Router: what its and its builder's last poll_ready returned
    futures,    \* the ResponseFutures Router::call returned, oldest first
    layers,     \* Insert and MakeSvc: what their and their inner's last
                \* poll_ready returned
    input,      \* what a stack is given: an accepted request ("key"), a
                \* resolved Endpoint ("endpoint", "client"), the Lazy an
                \* insert layer was built with ("insert"), or the Split state
                \* the reader starts in ("split")
    outbound,   \* the last operation on the input and what it returned; in
                \* "insert" the Insert service, in "split" the samples and
                \* answers of the last poll_ready and whether the Service
                \* is a clone
    client      \* the HTTP client factory's MakeFuture and the Client it yields

vars == <<stack, pending, debugBuild, built, update, watch, sent, reader,
          router, futures, layers, input, outbound, client>>
outboundVars == <<input, outbound, client>>
pendingVars == <<pending>>
concreteVars == <<debugBuild, built, update, watch, sent, reader>>

\* ================================================================ Pending
\* pending.rs: enum Pending<F, S> { Making(F), Made(S) }
\*   st       "Making" | "Made"
\*   fut      the constructor future: "NotReady" | "Ready" | "Err" while it is
\*            held by Making, "Taken" once it yielded the service
\*   polled   what the last poll_ready polled and what that answered, in order
\*   lastPoll what the last poll_ready returned ("None": none since the last call)
\*   svcPoll  what the made service's own poll_ready last returned since it
\*            was last called ("None": not polled since)
\*   calls    requests forwarded to the made service
\*   stale    the constructor future was polled after it yielded
\* About the last call, until the next poll_ready: callIn the variant the
\* handle was in, obeyed whether the latest poll_ready had returned Ready,
\* servedFresh whether the made service's latest poll_ready had returned
\* Ready, aborted whether it panicked ("pending not ready yet").
Polled(what, out) == [what |-> what, out |-> out]

\* MakePending::make: the handle starts in Making with the oneshot future.
NewPending ==
    [st |-> "Making", fut |-> "NotReady", polled |-> <<>>, lastPoll |-> "None",
     svcPoll |-> "None", calls |-> 0, stale |-> FALSE, callIn |-> "None",
     obeyed |-> FALSE, servedFresh |-> FALSE, aborted |-> FALSE]

\* Faulty variant: the Making arm returns Ready instead of looping into Made.
PendingStepNoLoop(p, svcOut) ==
    IF p.st = "Making"
    THEN IF p.fut = "Ready"
         THEN [p EXCEPT !.st = "Made", !.fut = "Taken",
                        !.polled = Append(@, Polled("fut", "Ready")),
                        !.lastPoll = "Ready"]
         ELSE [p EXCEPT !.polled = Append(@, Polled("fut", p.fut)),
                        !.stale = (@ \/ p.fut = "Taken"),
                        !.lastPoll = IF p.fut = "Taken" THEN "NotReady" ELSE p.fut]
    ELSE [p EXCEPT !.polled = Append(@, Polled("svc", svcOut)),
                   !.svcPoll = svcOut, !.lastPoll = svcOut]

\* Faulty variant: the Made arm falls back to Making.
PendingStepRemake(p, svcOut) ==
    IF p.st = "Making"
    THEN IF p.fut = "Ready"
         THEN [p EXCEPT !.st = "Made", !.fut = "Taken",
                        !.polled = Append(@, Polled("fut", "Ready")),
                        !.lastPoll = "Loop"]
         ELSE [p EXCEPT !.polled = Append(@, Polled("fut", p.fut)),
                        !.stale = (@ \/ p.fut = "Taken"),
                        !.lastPoll = IF p.fut = "Taken" THEN "NotReady" ELSE p.fut]
    ELSE [p EXCEPT !.st = "Making", !.polled = Append(@, Polled("svc", svcOut)),
                   !.svcPoll = svcOut, !.lastPoll = svcOut]

\* Faulty variant: a failed constructor future is taken for a made service.
PendingStepSwallowsError(p, svcOut) ==
    IF p.st = "Making"
    THEN IF p.fut \in {"Ready", "Err"}
         THEN [p EXCEPT !.st = "Made",
                        !.polled = Append(@, Polled("fut", p.fut)),
                        !.lastPoll = "Loop"]
         ELSE [p EXCEPT !.polled = Append(@, Polled("fut", p.fut)),
                        !.stale = (@ \/ p.fut = "Taken"),
                        !.lastPoll = IF p.fut = "Taken" THEN "NotReady" ELSE p.fut]
    ELSE [p EXCEPT !.polled = Append(@, Polled("svc", svcOut)),
                   !.svcPoll = svcOut, !.lastPoll = svcOut]

\* One iteration of Pending::poll_ready's loop over `*self = match self {..}`.
\* lastPoll "Loop": the arm produced a new *self and the loop goes on.
PendingStep(p, svcOut) ==
    IF p.st = "Making"
    THEN \* let svc = try_ready!(fut.poll().map_err(Into::into)); Pending::Made(svc)
         IF p.fut = "Ready"
         THEN [p EXCEPT !.st = "Made", !.fut = "Taken",
                        !.polled = Append(@, Polled("fut", "Ready")),
                        !.lastPoll = "Loop"]
         ELSE [p EXCEPT !.polled = Append(@, Polled("fut", p.fut)),
                        !.stale = (@ \/ p.fut = "Taken"),
                        !.lastPoll = IF p.fut = "Taken" THEN "NotReady" ELSE p.fut]
    ELSE \* Pending::Made(svc) => return svc.poll_ready().map_err(Into::into)
         [p EXCEPT !.polled = Append(@, Polled("svc", svcOut)),
                   !.svcPoll = svcOut, !.lastPoll = svcOut]

\* Pending::poll_ready: loop until an arm returns.
RECURSIVE PendingLoop(_, _)
PendingLoop(p, svcOut) ==
    LET q == PendingStep(p, svcOut)
    IN  IF q.lastPoll = "Loop" THEN PendingLoop(q, svcOut) ELSE q

PendingPollReadyResult(p, svcOut) ==
    PendingLoop([p EXCEPT !.polled = <<>>, !.callIn = "None", !.obeyed = FALSE,
                          !.servedFresh = FALSE], svcOut)

\* Pending::call: forwards in Made, panics otherwise.
\* Faulty variant: call forwards without looking at the variant.
PendingCallForwardAlways(p) ==
    [p EXCEPT !.calls = @ + 1, !.callIn = p.st, !.obeyed = (p.lastPoll = "Ready"),
              !.servedFresh = (p.svcPoll = "Ready"),
              !.lastPoll = "None", !.svcPoll = "None"]

PendingCallResult(p) ==
    IF p.st = "Made"
    THEN \* return s.call(req).map_err(Into::into)
         [p EXCEPT !.calls = @ + 1, !.callIn = p.st,
                   !.obeyed = (p.lastPoll = "Ready"),
                   !.servedFresh = (p.svcPoll = "Ready"),
                   !.lastPoll = "None", !.svcPoll = "None"]
    ELSE \* panic!("pending not ready yet")
         [p EXCEPT !.callIn = p.st, !.obeyed = (p.lastPoll = "Ready"),
                   !.lastPoll = "None", !.aborted = TRUE]

\* --- actions
MakePendingMake ==
    /\ stack = "pending"
    /\ Len(pending) < MaxPending
    /\ pending' = Append(pending, NewPending)
    /\ UNCHANGED <<stack, concreteVars, router, futures, layers, outboundVars>>

\* The constructor future (Oneshot<M, T>) completes, with a service or an error.
PendingFutResolve(h, out) ==
    /\ stack = "pending"
    /\ h \in DOMAIN pending
    /\ pending[h].st = "Making" /\ pending[h].fut = "NotReady"
    /\ pending' = [pending EXCEPT ![h].fut = out]
    /\ UNCHANGED <<stack, concreteVars, router, futures, layers, outboundVars>>

PendingPollReady(h, svcOut) ==
    /\ stack = "pending"
    /\ h \in DOMAIN pending
    /\ ~pending[h].aborted
    /\ pending' = [pending EXCEPT ![h] = PendingPollReadyResult(@, svcOut)]
    /\ UNCHANGED <<stack, concreteVars, router, futures, layers, outboundVars>>

PendingCall(h) ==
    /\ stack = "pending"
    /\ h \in DOMAIN pending
    /\ ~pending[h].aborted
    /\ pending[h].calls < MaxCalls
    /\ pending' = [pending EXCEPT ![h] = PendingCallResult(@)]
    /\ UNCHANGED <<stack, concreteVars, router, futures, layers, outboundVars>>

NextPending ==
    \/ MakePendingMake
    \/ \E h \in 1..MaxPending, out \in {"Ready", "Err"} : PendingFutResolve(h, out)
    \/ \E h \in 1..MaxPending, svcOut \in PollOutcomes : PendingPollReady(h, svcOut)
    \/ \E h \in 1..MaxPending : PendingCall(h)

\* ======================================================= profile-concrete
\* concrete.rs.  A built service is named by its identity: the position of
\* its Make::make call in `built`.  A clone of a service keeps the identity.
NoIndex == 0         \* next_split_index: None; Some(i) is position i + 1
NoAddr == "none"     \* Forward { addr: None }: the original target

\* enum Inner<S> { Forward { addr, service }, Split { distribution, services } }
\* services is the IndexMap, as the sequence of its (addr, svc) entries.
Forward(addr, svc) ==
    [kind |-> "Forward", addr |-> addr, service |-> svc,
     distribution |-> <<>>, services |-> <<>>]

Split(distribution, services) ==
    [kind |-> "Split", addr |-> NoAddr, service |-> NoIndex,
     distribution |-> distribution, services |-> services]

\* IndexMap::get / IndexMap::insert (an existing key keeps its position and
\* gets the new value, a new key is appended).
MapHas(m, k) == \E i \in 1..Len(m) : m[i].addr = k

MapGet(m, k) == m[CHOOSE i \in 1..Len(m) : m[i].addr = k].svc

\* Faulty variant: a new key goes to the front of the map.
MapInsertFront(m, k, s) ==
    IF MapHas(m, k)
    THEN [i \in 1..Len(m) |-> IF m[i].addr = k THEN [addr |-> k, svc |-> s] ELSE m[i]]
    ELSE <<[addr |-> k, svc |-> s]>> \o m

MapInsert(m, k, s) ==
    IF MapHas(m, k)
    THEN [i \in 1..Len(m) |-> IF m[i].addr = k THEN [addr |-> k, svc |-> s] ELSE m[i]]
    ELSE Append(m, [addr |-> k, svc |-> s])

\* WeightedIndex::new(weights): Err(NoItem) for no weights, Err(AllWeightsZero)
\* for a total of zero; .expect("invalid weight distribution") then panics.
RECURSIVE SumWeights(_)
SumWeights(ws) == IF ws = <<>> THEN 0 ELSE Head(ws) + SumWeights(Tail(ws))

WeightsOf(addrs) == [i \in 1..Len(addrs) |-> addrs[i].weight]

WeightedIndexOk(ws) == Len(ws) > 0 /\ SumWeights(ws) > 0

\* distribution.sample(rng): any position of positive weight.
SampleIndices(distribution) == {i \in 1..Len(distribution) : distribution[i] > 0}

\* set_split from Forward: addrs.into_iter().map(make).collect::<IndexMap>().
\* Every element is built, in order.
RECURSIVE CollectServices(_, _, _)
CollectServices(addrs, services, blt) ==
    IF addrs = <<>>
    THEN [services |-> services, built |-> blt]
    ELSE LET wa == Head(addrs)
             blt2 == Append(blt, wa.addr)
         IN  CollectServices(Tail(addrs), MapInsert(services, wa.addr, Len(blt2)), blt2)

\* set_split from Split: the loop over addrs with prior.get(&w.addr).
RECURSIVE ReuseServices(_, _, _, _)
ReuseServices(addrs, prior, services, blt) ==
    IF addrs = <<>>
    THEN [services |-> services, built |-> blt]
    ELSE LET w == Head(addrs)
             blt2 == Append(blt, w.addr)
         IN  IF MapHas(prior, w.addr)
             THEN ReuseServices(Tail(addrs), prior,
                                MapInsert(services, w.addr, MapGet(prior, w.addr)), blt)
             ELSE ReuseServices(Tail(addrs), prior,
                                MapInsert(services, w.addr, Len(blt2)), blt2)

\* Update::set_split up to the broadcast: the new routes, the build log and
\* "AlreadySet" (early return Ok), "Set" (routes to broadcast) or "Panic".
SetSplit(routes, blt, addrs) ==
    IF routes.kind = "Forward"
    THEN IF Len(addrs) = 1
         THEN LET new_addr == addrs[1].addr
              IN  IF routes.addr = new_addr
                  THEN [outcome |-> "AlreadySet", routes |-> routes, built |-> blt]
                  ELSE [outcome |-> "Set",
                        routes |-> Forward(new_addr, Len(blt) + 1),
                        built |-> Append(blt, new_addr)]
         ELSE IF ~WeightedIndexOk(WeightsOf(addrs))
              THEN [outcome |-> "Panic", routes |-> routes, built |-> blt]
              ELSE LET c == CollectServices(addrs, <<>>, blt)
                   IN  [outcome |-> "Set",
                        routes |-> Split(WeightsOf(addrs), c.services),
                        built |-> c.built]
    ELSE IF ~WeightedIndexOk(WeightsOf(addrs))
         THEN [outcome |-> "Panic", routes |-> routes, built |-> blt]
         ELSE LET c == ReuseServices(addrs, routes.services, <<>>, blt)
              IN  [outcome |-> "Set",
                   routes |-> Split(WeightsOf(addrs), c.services),
                   built |-> c.built]

\* Update::set_forward up to the broadcast.
\* Faulty variant: set_forward rebuilds without the "already set" test.
SetForwardAlwaysRebuild(routes, blt) ==
    [outcome |-> "Set", routes |-> Forward(NoAddr, Len(blt) + 1),
     built |-> Append(blt, NoAddr)]

SetForward(routes, blt) ==
    IF routes.kind = "Forward" /\ routes.addr = NoAddr
    THEN [outcome |-> "AlreadySet", routes |-> routes, built |-> blt]
    ELSE [outcome |-> "Set", routes |-> Forward(NoAddr, Len(blt) + 1),
          built |-> Append(blt, NoAddr)]

\* watch::Sender::broadcast: fails when no receiver is left, else stores the
\* value and advances the version.
\* Faulty variant: broadcast succeeds without a receiver.
BroadcastNoReceiverCheck(w, value) ==
    [w EXCEPT !.value = value, !.version = @ + 1, !.ok = TRUE]

Broadcast(w, value) ==
    IF w.receivers = 0
    THEN [w EXCEPT !.ok = FALSE]
    ELSE [w EXCEPT !.value = value, !.version = @ + 1, !.ok = TRUE]

\* forward(): the initial routes, built from the target itself.
InitialRoutes == Forward(NoAddr, 1)

\* --- the writer
\* update: routes and aborted are the writer; the rest records its last call:
\*   n calls made, op/addrs the call, prior the routes before it, builtBefore
\*   the length of the build log before it, result what it returned.
WriterStep(op, addrs, s) ==
    /\ stack = "concrete"
    /\ ~update.aborted
    /\ ~watch.closed
    /\ update.n < MaxUpdates
    /\ LET w == IF s.outcome = "Set" THEN Broadcast(watch, s.routes) ELSE watch
       IN  /\ update' = [routes |-> s.routes,
                         aborted |-> (s.outcome = "Panic"),
                         n |-> update.n + 1,
                         op |-> op, addrs |-> addrs,
                         prior |-> update.routes,
                         builtBefore |-> Len(built),
                         result |-> IF s.outcome = "Panic" THEN "Panic"
                                    ELSE IF s.outcome = "Set" /\ ~w.ok THEN "LostService"
                                    ELSE "Ok"]
           /\ built' = s.built
           /\ watch' = w
           /\ sent' = IF w.version # watch.version THEN Append(sent, w.value) ELSE sent
    /\ UNCHANGED <<stack, pendingVars, debugBuild, reader, router, futures, layers, outboundVars>>

UpdateSetForward == WriterStep("set_forward", <<>>, SetForward(update.routes, built))

UpdateSetSplit(addrs) == WriterStep("set_split", addrs, SetSplit(update.routes, built, addrs))

\* --- the reader
\* reader: routes, ver (updates' seen version), next_split_index and aborted
\* (a panic) are the Service.  About its last poll_ready: lastPoll the result
\* ("None" once call has been invoked since), adopted whether it took a new
\* state from the channel, polledReady the service that answered Ready in it,
\* polledErr whether a service answered Err in it.
\* fresh: the positions whose service answered Ready at its latest poll_ready
\* and was not called since.  About its last call, until the next poll_ready:
\* callKind the variant it ran in, obeyed whether the latest poll_ready had
\* returned Ready, served the service that got the request, expected the
\* service that had answered Ready, servedFresh whether served was fresh,
\* behind whether the channel held a value the reader had not seen yet.
\* recvErr: the channel answered the last poll_ready with an error; sawClosed:
\* the Sender was dropped when the last poll_ready ran.
NewReader(routes) ==
    [routes |-> routes, ver |-> 0, next_split_index |-> NoIndex, aborted |-> FALSE,
     lastPoll |-> "None", adopted |-> FALSE, polledReady |-> NoIndex,
     polledErr |-> FALSE, fresh |-> {},
     callKind |-> "None", obeyed |-> FALSE, served |-> NoIndex,
     expected |-> NoIndex, servedFresh |-> FALSE, behind |-> FALSE,
     recvErr |-> FALSE, sawClosed |-> FALSE]

\* watch::Receiver::poll_ref for a Receiver that has seen version ver:
\* Ready(Some(value)) for a version not yet seen, else Ready(None) once the
\* Sender is dropped, else NotReady.
\* Faulty variant: a dropped Sender is reported as an error.
PollRefErrWhenClosed(ver, w) ==
    IF w.closed THEN "Err"
    ELSE IF w.version # ver THEN "Some"
    ELSE "NotReady"

PollRef(ver, w) ==
    IF w.version # ver THEN "Some"
    ELSE IF w.closed THEN "None"
    ELSE "NotReady"

\* poll_ready, the loop over self.updates.poll_ref(): a version not yet seen
\* yields the value once, after which poll_ref is NotReady and the loop ends.
\* Faulty variant: adopting a new state keeps next_split_index.
DrainKeepIndex(r, w) ==
    IF w.version # r.ver
    THEN [r EXCEPT !.routes = w.value, !.ver = w.version,
                   !.fresh = {}, !.adopted = TRUE]
    ELSE [r EXCEPT !.adopted = FALSE]

DrainUpdates(r, w) ==
    LET first == PollRef(r.ver, w)
        r1 == IF first = "Some"
              THEN [r EXCEPT !.routes = w.value, !.ver = w.version,
                             !.next_split_index = NoIndex, !.fresh = {},
                             !.adopted = TRUE]
              ELSE [r EXCEPT !.adopted = FALSE]
    IN  [r1 EXCEPT !.recvErr = (first = "Err" \/ PollRef(r1.ver, w) = "Err")]

\* poll_ready, Inner::Forward arm.
\* Faulty variant: the Forward arm reports Ready whatever the service answers.
PollForwardAlwaysReady(r, out) ==
    [r EXCEPT !.lastPoll = "Ready", !.polledErr = (out = "Err"),
              !.fresh = IF out = "Ready" THEN {1} ELSE {},
              !.polledReady = IF out = "Ready" THEN r.routes.service ELSE NoIndex]

PollForward(r, out) ==
    [r EXCEPT !.lastPoll = out, !.polledErr = (out = "Err"),
              !.fresh = IF out = "Ready" THEN {1} ELSE {},
              !.polledReady = IF out = "Ready" THEN r.routes.service ELSE NoIndex]

\* poll_ready, Inner::Split arm: iteration k of `for _ in 0..services.len()`.
\* samp[k] is the index sampled in iteration k, rdy[i] what the service at
\* position i answers to poll_ready during this invocation.
\* Faulty variant: the loop samples once more than there are services.
RECURSIVE PollSplitOneMore(_, _, _, _)
PollSplitOneMore(r, samp, rdy, k) ==
    IF k > Len(r.routes.services) + 1 \/ k > Len(samp)
    THEN [r EXCEPT !.lastPoll = "NotReady"]
    ELSE LET idx == samp[k]
         IN  IF idx > Len(r.routes.services)
             THEN [r EXCEPT !.lastPoll = "Panic", !.aborted = TRUE]
             ELSE IF rdy[idx] = "Ready"
             THEN [r EXCEPT !.next_split_index = idx, !.lastPoll = "Ready",
                            !.fresh = @ \cup {idx},
                            !.polledReady = r.routes.services[idx].svc]
             ELSE IF rdy[idx] = "Err"
             THEN [r EXCEPT !.lastPoll = "Err", !.polledErr = TRUE, !.fresh = @ \ {idx}]
             ELSE PollSplitOneMore([r EXCEPT !.fresh = @ \ {idx}], samp, rdy, k + 1)

RECURSIVE PollSplit(_, _, _, _)
PollSplit(r, samp, rdy, k) ==
    IF k > Len(r.routes.services)
    THEN [r EXCEPT !.lastPoll = "NotReady"]
    ELSE LET idx == samp[k]
         IN  IF idx > Len(r.routes.services)
             THEN \* .expect("split index out of range")
                  [r EXCEPT !.lastPoll = "Panic", !.aborted = TRUE]
             ELSE IF rdy[idx] = "Ready"
             THEN [r EXCEPT !.next_split_index = idx, !.lastPoll = "Ready",
                            !.fresh = @ \cup {idx},
                            !.polledReady = r.routes.services[idx].svc]
             ELSE IF rdy[idx] = "Err"
             THEN [r EXCEPT !.lastPoll = "Err", !.polledErr = TRUE, !.fresh = @ \ {idx}]
             ELSE PollSplit([r EXCEPT !.fresh = @ \ {idx}], samp, rdy, k + 1)

\* Service::poll_ready.
PollReady(r, w, samp, rdy) ==
    LET r0 == [DrainUpdates(r, w) EXCEPT
                   !.polledReady = NoIndex, !.polledErr = FALSE,
                   !.callKind = "None", !.obeyed = FALSE,
                   !.served = NoIndex, !.expected = NoIndex, !.servedFresh = FALSE,
                   !.behind = FALSE, !.sawClosed = w.closed]
    IN  IF r0.recvErr
        THEN \* self.updates.poll_ref().map_err(Error::from)?
             [r0 EXCEPT !.lastPoll = "Err"]
        ELSE IF r0.routes.kind = "Forward"
        THEN PollForward(r0, rdy[1])
        ELSE IF debugBuild /\ ~(Len(r0.routes.services) > 1)
        THEN \* debug_assert!(services.len() > 1)
             [r0 EXCEPT !.lastPoll = "Panic", !.aborted = TRUE]
        ELSE PollSplit(r0, samp, rdy, 1)

\* Service::call.
\* Faulty variant: call reads next_split_index without take().
CallKeepIndex(r) ==
    LET c == [r EXCEPT !.lastPoll = "None", !.adopted = FALSE,
                       !.polledReady = NoIndex, !.polledErr = FALSE,
                       !.callKind = r.routes.kind,
                       !.obeyed = (r.lastPoll = "Ready"), !.expected = r.polledReady]
    IN  IF r.routes.kind = "Forward"
        THEN [c EXCEPT !.served = r.routes.service, !.servedFresh = (1 \in r.fresh),
                       !.fresh = {}]
        ELSE IF r.next_split_index = NoIndex
             THEN [c EXCEPT !.aborted = TRUE]
             ELSE [c EXCEPT !.served = r.routes.services[r.next_split_index].svc,
                            !.servedFresh = (r.next_split_index \in r.fresh),
                            !.fresh = @ \ {r.next_split_index}]

\* Faulty variant: call dispatches to the first backend, not the stashed one.
CallFirstBackend(r) ==
    LET c == [r EXCEPT !.lastPoll = "None", !.adopted = FALSE,
                       !.polledReady = NoIndex, !.polledErr = FALSE,
                       !.callKind = r.routes.kind,
                       !.obeyed = (r.lastPoll = "Ready"), !.expected = r.polledReady]
    IN  IF r.routes.kind = "Forward"
        THEN [c EXCEPT !.served = r.routes.service, !.servedFresh = (1 \in r.fresh),
                       !.fresh = {}]
        ELSE IF r.next_split_index = NoIndex
             THEN [c EXCEPT !.aborted = TRUE]
             ELSE [c EXCEPT !.next_split_index = NoIndex,
                            !.served = r.routes.services[1].svc,
                            !.servedFresh = (1 \in r.fresh),
                            !.fresh = @ \ {1}]

\* Faulty variant: call takes the channel's latest state before dispatching.
CallAdoptsUpdate(r) ==
    LET d == DrainUpdates(r, watch)
        c == [d EXCEPT !.lastPoll = "None", !.adopted = FALSE,
                       !.polledReady = NoIndex, !.polledErr = FALSE,
                       !.callKind = d.routes.kind,
                       !.obeyed = (r.lastPoll = "Ready"), !.expected = r.polledReady]
    IN  IF d.routes.kind = "Forward"
        THEN [c EXCEPT !.served = d.routes.service, !.servedFresh = (1 \in d.fresh),
                       !.fresh = {}]
        ELSE IF d.next_split_index = NoIndex
             THEN [c EXCEPT !.aborted = TRUE]
             ELSE [c EXCEPT !.next_split_index = NoIndex,
                            !.served = d.routes.services[d.next_split_index].svc,
                            !.servedFresh = (d.next_split_index \in d.fresh),
                            !.fresh = @ \ {d.next_split_index}]

Call(r) ==
    LET c == [r EXCEPT !.lastPoll = "None", !.adopted = FALSE,
                       !.polledReady = NoIndex, !.polledErr = FALSE,
                       !.callKind = r.routes.kind,
                       !.obeyed = (r.lastPoll = "Ready"), !.expected = r.polledReady]
    IN  IF r.routes.kind = "Forward"
        THEN \* service.call(req)
             [c EXCEPT !.served = r.routes.service, !.servedFresh = (1 \in r.fresh),
                       !.fresh = {}]
        ELSE IF r.next_split_index = NoIndex
             THEN \* .take().expect("concrete router is not ready")
                  [c EXCEPT !.aborted = TRUE]
             ELSE IF r.next_split_index > Len(r.routes.services)
             THEN \* .expect("split index out of range")
                  [c EXCEPT !.next_split_index = NoIndex, !.aborted = TRUE]
             ELSE [c EXCEPT !.next_split_index = NoIndex,
                            !.served = r.routes.services[r.next_split_index].svc,
                            !.servedFresh = (r.next_split_index \in r.fresh),
                            !.fresh = @ \ {r.next_split_index}]

\* The inputs of one poll_ready: what each backend answers, and the samples.
BackendCount(routes) == IF routes.kind = "Forward" THEN 1 ELSE Len(routes.services)

SampleSeqs(routes) ==
    IF routes.kind = "Forward"
    THEN {<<>>}
    ELSE [1..Len(routes.services) -> SampleIndices(routes.distribution)]

ReaderPollReady ==
    /\ stack = "concrete"
    /\ watch.receivers > 0
    /\ ~reader.aborted
    /\ LET next == DrainUpdates(reader, watch).routes
       IN  \E rdy \in [1..BackendCount(next) -> PollOutcomes], samp \in SampleSeqs(next) :
               reader' = PollReady(reader, watch, samp, rdy)
    /\ UNCHANGED <<stack, pendingVars, debugBuild, built, update, watch, sent, router, futures, layers, outboundVars>>

ReaderCall ==
    /\ stack = "concrete"
    /\ watch.receivers > 0
    /\ ~reader.aborted
    /\ reader' = [Call(reader) EXCEPT !.behind = (watch.version # reader.ver)]
    /\ UNCHANGED <<stack, pendingVars, debugBuild, built, update, watch, sent, router, futures, layers, outboundVars>>

\* The Update, and with it the channel's Sender, is dropped.
DropUpdate ==
    /\ stack = "concrete"
    /\ ~watch.closed
    /\ watch' = [watch EXCEPT !.closed = TRUE]
    /\ UNCHANGED <<stack, pendingVars, debugBuild, built, update, sent, reader, router, futures, layers, outboundVars>>

\* The Service, and with it the channel's only Receiver, is dropped.
DropReader ==
    /\ stack = "concrete"
    /\ watch.receivers > 0
    /\ watch' = [watch EXCEPT !.receivers = @ - 1]
    /\ UNCHANGED <<stack, pendingVars, debugBuild, built, update, sent, reader, router, futures, layers, outboundVars>>

NextConcrete ==
    \/ UpdateSetForward
    \/ \E addrs \in AddrLists : UpdateSetSplit(addrs)
    \/ ReaderPollReady
    \/ ReaderCall
    \/ DropUpdate
    \/ DropReader

\* --- one reader in Split state, with the inputs of its poll_ready on record
\* The Split states a writer can have broadcast with one set_split call, or
\* with a second one on a state of two services with weights 1 and 2, each
\* with the build log and the values the channel has held.
SplitStates ==
    LET first == {[s |-> SetSplit(InitialRoutes, <<NoAddr>>, a), sent |-> <<InitialRoutes>>]
                      : a \in AddrLists}
        held(t) == IF t.s.outcome = "Set" THEN Append(t.sent, t.s.routes) ELSE t.sent
        second == {[s |-> SetSplit(t.s.routes, t.s.built, b), sent |-> held(t)]
                       : t \in {u \in first : u.s.routes.kind = "Split"
                                                 /\ Len(u.s.routes.services) = 2
                                                 /\ u.s.routes.distribution = <<1, 2>>},
                         b \in AddrLists}
        splits == {t \in first \cup second :
                       t.s.outcome = "Set" /\ t.s.routes.kind = "Split"}
    IN  {[routes |-> t.s.routes, built |-> t.s.built, sent |-> held(t)] : t \in splits}

\* The positions of positive weight that have a service.
GoodBackends(routes) ==
    {i \in SampleIndices(routes.distribution) : i <= Len(routes.services)}

\* A reader's Split state, without a backend singled out.
SplitInputs ==
    {[routes |-> t.routes, built |-> t.built, sent |-> t.sent, good |-> NoIndex]
         : t \in SplitStates}

\* The samples the rng returns to one poll_ready, one more than the loop has
\* iterations.
SampleStreams(routes) ==
    [1..(Len(routes.services) + 1) -> SampleIndices(routes.distribution)]

\* Whether the Service at hand is a clone, and whether a poll_ready of the
\* clone has returned Ready.
NoClone == [taken |-> FALSE, ready |-> FALSE]

\* Service::poll_ready with the samples and the backends' answers on record.
SplitPollReady(samp, rdy) ==
    /\ stack = "split"
    /\ ~reader.aborted
    /\ reader' = PollReady(reader, watch, samp, rdy)
    /\ outbound' = [op |-> "split_poll_ready", samp |-> samp, rdy |-> rdy,
                    after |-> "None",
                    clone |-> [outbound.clone EXCEPT
                                   !.ready = (@ \/ (outbound.clone.taken
                                                     /\ reader'.lastPoll = "Ready"))]]
    /\ UNCHANGED <<stack, pendingVars, debugBuild, built, update, watch, sent, router, futures, layers, input, client>>

\* Service::call; after records what the poll_ready before it had returned
\* ("None" when call was not preceded by a poll_ready).
SplitCall ==
    /\ stack = "split"
    /\ ~reader.aborted
    /\ reader' = Call(reader)
    /\ outbound' = [op |-> "split_call", samp |-> <<>>, rdy |-> <<>>,
                    after |-> reader.lastPoll,
                    clone |-> outbound.clone]
    /\ UNCHANGED <<stack, pendingVars, debugBuild, built, update, watch, sent, router, futures, layers, input, client>>

\* #[derive(Clone)] on Service: routes, updates (the Receiver with the version
\* it has seen) and next_split_index are copied field by field.  The record
\* of polls and calls starts anew: the clone has been neither polled nor
\* called, and its backends are clones no poll_ready has answered for.
ServiceClone(r) ==
    [NewReader(r.routes) EXCEPT !.ver = r.ver,
                                !.next_split_index = r.next_split_index]

\* let reader = reader.clone(): the Service is cloned once and the original
\* dropped; from here on the run drives the clone.
ReaderClone ==
    /\ stack = "split"
    /\ ~reader.aborted
    /\ ~outbound.clone.taken
    /\ reader' = ServiceClone(reader)
    /\ outbound' = [op |-> "clone", samp |-> <<>>, rdy |-> <<>>, after |-> "None",
                    clone |-> [taken |-> TRUE, ready |-> FALSE]]
    /\ UNCHANGED <<stack, pendingVars, debugBuild, built, update, watch, sent, router, futures, layers, input, client>>

NextSplit ==
    \/ /\ stack = "split"
       /\ \E samp \in SampleStreams(reader.routes),
             rdy \in [1..Len(reader.routes.services) -> PollOutcomes] :
              SplitPollReady(samp, rdy)
    \/ SplitCall
    \/ ReaderClone

\* ================================================================= Router
\* router/src/lib.rs.  Requests, and the key function the Router was made
\* with (any Fn(&T) -> K is a Key<T>).
Reqs == {"req1", "req2"}

KeyOf(req) == IF req = "req1" THEN "k1" ELSE "k2"

\* Router::poll_ready: the readiness of the builder, errors converted.
RouterPollReadyResult(makeOut) == makeOut

\* enum ResponseFuture { Make(M, Option<Req>), Respond(Oneshot<S, Req>) }
\*   st       "Make" | "Respond"
\*   key      the key the builder was called with
\*   req      the request held by Make ("none" once taken)
\*   oneshot  tower's Oneshot: "None" (not created), "NotReady" (holds the
\*            service and the request), "Called" (holds the response future)
\*   result   what the last poll returned; done: it returned Ready or Err
\*   svcPoll  what the built service's poll_ready last returned
\*   sentReq  the requests dispatched with service.call, in order
\*   unready  service.call was invoked although the service's latest
\*            poll_ready was not Ready
\*   obeyed   whether the Router's latest poll_ready had returned Ready
\*            when Router::call was invoked
\*   makeReady whether the builder's latest poll_ready had returned Ready
\*            when Router::call called it
\*   arg      the request Router::call was given
\*   errFrom  which of the builder future ("fut"), the built service's
\*            poll_ready ("svc") and the response future ("resp") answered
\*            Err to a poll, "none" if none did
NewResponseFuture(req, rt) ==
    [st |-> "Make", key |-> KeyOf(req), req |-> req, oneshot |-> "None",
     result |-> "None", done |-> FALSE, svcPoll |-> "None", sentReq |-> <<>>,
     unready |-> FALSE, obeyed |-> (rt.lastPoll = "Ready"),
     makeReady |-> (rt.makePoll = "Ready"), arg |-> req, errFrom |-> "none"]

\* Oneshot::poll: poll_ready the service, call it once it is ready, then poll
\* the response future.  "Loop": the state changed and poll goes on.
\* Faulty variant: the Oneshot keeps the service and the request after the
\* call, so a later poll dispatches again.
OneshotPollRedispatch(f, svcOut, respOut) ==
    IF f.oneshot = "NotReady"
    THEN IF svcOut = "Ready"
         THEN [f EXCEPT !.svcPoll = "None",
                        !.sentReq = Append(@, f.req),
                        !.result = respOut,
                        !.errFrom = IF respOut = "Err" THEN "resp" ELSE @]
         ELSE [f EXCEPT !.svcPoll = svcOut, !.result = svcOut,
                        !.errFrom = IF svcOut = "Err" THEN "svc" ELSE @]
    ELSE [f EXCEPT !.result = respOut,
                   !.errFrom = IF respOut = "Err" THEN "resp" ELSE @]

OneshotPoll(f, svcOut, respOut) ==
    IF f.oneshot = "NotReady"
    THEN IF svcOut = "Ready"
         THEN [f EXCEPT !.svcPoll = "None", !.oneshot = "Called",
                        !.sentReq = Append(@, f.req), !.req = "none",
                        !.unready = (@ \/ svcOut # "Ready"),
                        !.result = "Loop"]
         ELSE [f EXCEPT !.svcPoll = svcOut, !.result = svcOut,
                        !.errFrom = IF svcOut = "Err" THEN "svc" ELSE @]
    ELSE [f EXCEPT !.result = respOut,
                   !.errFrom = IF respOut = "Err" THEN "resp" ELSE @]

\* One iteration of ResponseFuture::poll's loop.
\* Faulty variant: an error of the builder future is taken for NotReady.
ResponseFutureStepDropsError(f, futOut, svcOut, respOut) ==
    IF f.st = "Make"
    THEN IF futOut = "Ready"
         THEN [f EXCEPT !.st = "Respond", !.oneshot = "NotReady", !.result = "Loop"]
         ELSE [f EXCEPT !.result = "NotReady",
                        !.errFrom = IF futOut = "Err" THEN "fut" ELSE @]
    ELSE OneshotPoll(f, svcOut, respOut)

ResponseFutureStep(f, futOut, svcOut, respOut) ==
    IF f.st = "Make"
    THEN \* let service = try_ready!(fut.poll().map_err(Into::into));
         IF futOut = "Ready"
         THEN [f EXCEPT !.st = "Respond", !.oneshot = "NotReady", !.result = "Loop"]
         ELSE [f EXCEPT !.result = futOut,
                        !.errFrom = IF futOut = "Err" THEN "fut" ELSE @]
    ELSE \* return future.poll().map_err(Into::into)
         OneshotPoll(f, svcOut, respOut)

RECURSIVE ResponseFutureLoop(_, _, _, _)
ResponseFutureLoop(f, futOut, svcOut, respOut) ==
    LET g == ResponseFutureStep(f, futOut, svcOut, respOut)
    IN  IF g.result = "Loop" THEN ResponseFutureLoop(g, futOut, svcOut, respOut)
        ELSE [g EXCEPT !.done = (g.result # "NotReady")]

\* --- actions
RouterPollReady(makeOut) ==
    /\ stack = "router"
    /\ router' = [router EXCEPT !.makePoll = makeOut,
                                !.lastPoll = RouterPollReadyResult(makeOut)]
    /\ UNCHANGED <<stack, pendingVars, concreteVars, futures, layers, outboundVars>>

\* Router::call: ResponseFuture::Make(self.make.call(key), Some(request)).
RouterCall(req) ==
    /\ stack = "router"
    /\ Len(futures) < MaxCalls
    /\ futures' = Append(futures, NewResponseFuture(req, router))
    /\ router' = [router EXCEPT !.makePoll = "None", !.lastPoll = "None"]
    /\ UNCHANGED <<stack, pendingVars, concreteVars, layers, outboundVars>>

\* Whether a poll of f reaches the builder future, the built service's
\* poll_ready and the response future, given what the earlier ones answer.
PollsFut(f) == f.st = "Make"

PollsSvc(f, futOut) == (PollsFut(f) /\ futOut = "Ready") \/ f.oneshot = "NotReady"

PollsResp(f, futOut, svcOut) ==
    (PollsSvc(f, futOut) /\ svcOut = "Ready") \/ f.oneshot = "Called"

\* futOut, svcOut, respOut: what the builder future, the built service's
\* poll_ready and the response future answer if this poll reaches them (an
\* answer the poll does not reach is written Ready).
ResponseFuturePoll(i, futOut, svcOut, respOut) ==
    /\ stack = "router"
    /\ i \in DOMAIN futures
    /\ ~futures[i].done
    /\ ~PollsFut(futures[i]) => futOut = "Ready"
    /\ ~PollsSvc(futures[i], futOut) => svcOut = "Ready"
    /\ ~PollsResp(futures[i], futOut, svcOut) => respOut = "Ready"
    /\ futures' = [futures EXCEPT ![i] = ResponseFutureLoop(@, futOut, svcOut, respOut)]
    /\ UNCHANGED <<stack, pendingVars, concreteVars, router, layers, outboundVars>>

NextRouter ==
    \/ \E makeOut \in PollOutcomes : RouterPollReady(makeOut)
    \/ \E req \in Reqs : RouterCall(req)
    \/ \E i \in 1..MaxCalls, futOut \in PollOutcomes, svcOut \in PollOutcomes,
          respOut \in PollOutcomes : ResponseFuturePoll(i, futOut, svcOut, respOut)

\* ====================================== Insert and the orig-proto MakeSvc
\* insert.rs Insert::poll_ready and orig_proto_upgrade.rs MakeSvc::poll_ready
\* are self.inner.poll_ready().
Layers == {"Insert", "MakeSvc"}

LayerPollReadyResult(innerOut) == innerOut

LayerPollReady(l, innerOut) ==
    /\ stack = "layers"
    /\ layers' = [layers EXCEPT ![l] = [innerPoll |-> innerOut,
                                        lastPoll |-> LayerPollReadyResult(innerOut)]]
    /\ UNCHANGED <<stack, pendingVars, concreteVars, router, futures, outboundVars>>

NextLayers == \E l \in Layers, innerOut \in PollOutcomes : LayerPollReady(l, innerOut)

\* ------------------------------------------------------------ Insert::call
\* insert.rs.  The values a Lazy can produce (targets are such values too),
\* and a request: an identity standing for everything but the extensions, and
\* the extension map, keyed by type.  "V" is the type of the Lazy's value, "U"
\* some other type; "absent" marks a type with no value in the map.
ExtValues == {"v1", "v2"}

InsertRequests ==
    [id : {1, 2},
     extensions : [V : ExtValues \cup {"absent"}, U : {"absent", "u1"}]]

\* ValLazy(v), FnLazy(f) and the target form.  A function is the sequence of
\* the values its successive invocations return (then cycling).
ValLazy(v) == [form |-> "val", v |-> v, results |-> <<>>]

FnLazy(results) == [form |-> "fn", v |-> "absent", results |-> results]

InsertLayers ==
    {ValLazy(v) : v \in ExtValues}
        \cup {FnLazy(rs) : rs \in {<<"v1">>, <<"v1", "v2">>, <<"v2", "v1">>}}
        \cup {[form |-> "target", v |-> "absent", results |-> <<>>]}

\* Lazy::value: self.0.clone() for ValLazy, (self.0)() for FnLazy; n is the
\* number of invocations made before this one.
LazyValue(lazy, n) ==
    IF lazy.form = "fn" THEN lazy.results[(n % Len(lazy.results)) + 1]
    ELSE lazy.v

\* Insert::new(inner, lazy), with the inner service as the target it was made
\* for and the requests it has been called with; produced counts Lazy::value
\* invocations, reqs logs the requests Insert::call was given.
InsertNew(inner, lazy) ==
    [op |-> "insert_make", lazy |-> lazy, made |-> inner, produced |-> 0,
     received |-> <<>>, reqs |-> <<>>]

\* MakeInsert::make: Insert::new(self.inner.make(t), self.lazy.clone()).
MakeInsertMake(lazy, t) == InsertNew(t, lazy)

\* target::Make::make: the inner is made for a clone of the target, and the
\* Insert holds ValLazy(target).
TargetMakeMake(target) == InsertNew(target, ValLazy(target))

\* Faulty variant: a value of the type already in the map is kept.
ExtensionsInsertKeepsExisting(ext, v) ==
    IF ext.V = "absent" THEN [ext EXCEPT !.V = v] ELSE ext

\* req.extensions_mut().insert(value): the map holds one value per type.
ExtensionsInsert(ext, v) == [ext EXCEPT !.V = v]

\* Insert::call.
InsertCallResult(svc, req) ==
    LET value == LazyValue(svc.lazy, svc.produced)
        sent_req == [req EXCEPT !.extensions = ExtensionsInsert(@, value)]
    IN  [svc EXCEPT !.op = "insert_call",
                    !.produced = @ + 1,
                    !.received = Append(@, sent_req),
                    !.reqs = Append(@, req)]

InsertMake(t) ==
    /\ stack = "insert"
    /\ outbound.op = "none"
    /\ outbound' = IF input.form = "target" THEN TargetMakeMake(t)
                   ELSE MakeInsertMake(input, t)
    /\ UNCHANGED <<stack, pendingVars, concreteVars, router, futures, layers, input, client>>

InsertCall(req) ==
    /\ stack = "insert"
    /\ outbound.op # "none"
    /\ Len(outbound.received) < MaxCalls
    /\ outbound' = InsertCallResult(outbound, req)
    /\ UNCHANGED <<stack, pendingVars, concreteVars, router, futures, layers, input, client>>

NextInsert ==
    \/ \E t \in ExtValues : InsertMake(t)
    \/ \E req \in InsertRequests : InsertCall(req)

\* ====================================================== outbound endpoint
\* app/outbound/src/endpoint.rs.  http::Settings, as a record of its variant
\* and the fields of Http1 (FALSE in the other variants).
Http1(keep_alive, wants_h1_upgrade, was_absolute_form) ==
    [kind |-> "Http1", keep_alive |-> keep_alive,
     wants_h1_upgrade |-> wants_h1_upgrade, was_absolute_form |-> was_absolute_form]

Http2 ==
    [kind |-> "Http2", keep_alive |-> FALSE,
     wants_h1_upgrade |-> FALSE, was_absolute_form |-> FALSE]

NotHttp ==
    [kind |-> "NotHttp", keep_alive |-> FALSE,
     wants_h1_upgrade |-> FALSE, was_absolute_form |-> FALSE]

SettingsSet ==
    {Http1(k, u, a) : k \in BOOLEAN, u \in BOOLEAN, a \in BOOLEAN} \cup {Http2, NotHttp}

\* Settings::was_absolute_form.
WasAbsoluteForm(settings) == settings.kind = "Http1" /\ settings.was_absolute_form

\* Metadata: the protocol hint and the labels; Metadata::empty().
ProtocolHints == {"Unknown", "Http2"}

MetadataSet == [protocol_hint : ProtocolHints, labels : {"none", "zone=a"}]

EmptyMetadata == [protocol_hint |-> "Unknown", labels |-> "none"]

\* Addr: a NameAddr (name and port) or a socket address.
NameAddr(name, port) == [kind |-> "Name", host |-> name, port |-> port]

SocketAddr(ip, port) == [kind |-> "Socket", host |-> ip, port |-> port]

SocketAddrs == {SocketAddr("10.0.0.1", 80), SocketAddr("10.0.0.2", 80)}

\* tls::PeerIdentity: Conditional::Some(name) or Conditional::None(reason).
PeerIdentity(name) ==
    IF name = "absent" THEN [some |-> FALSE, name |-> "NotProvidedByServiceDiscovery"]
    ELSE [some |-> TRUE, name |-> name]

\* struct Concrete { dst, settings } and struct Endpoint.
Concrete(dst, settings) == [dst |-> dst, settings |-> settings]

Endpoints ==
    [addr : SocketAddrs,
     identity : {PeerIdentity("absent"), PeerIdentity("id.example")},
     concrete : {Concrete(NameAddr("foo", 80), st) : st \in SettingsSet},
     metadata : MetadataSet]

\* The endpoints that differ from e in at most one field.
OneFieldFrom(e) ==
    {x \in Endpoints :
        Cardinality({f \in {"addr", "identity", "concrete", "metadata"} : x[f] # e[f]}) <= 1}

\* Endpoint::can_use_orig_proto: value is what it returns, panic whether it
\* reached unreachable!().
\* Faulty variant: the protocol hint is not consulted.
CanUseOrigProtoIgnoresHint(e) ==
    IF e.concrete.settings.kind = "Http2"
    THEN [panic |-> FALSE, value |-> FALSE]
    ELSE IF e.concrete.settings.kind = "Http1"
    THEN [panic |-> FALSE, value |-> ~e.concrete.settings.wants_h1_upgrade]
    ELSE [panic |-> TRUE, value |-> FALSE]

CanUseOrigProto(e) ==
    IF e.metadata.protocol_hint = "Unknown"
    THEN [panic |-> FALSE, value |-> FALSE]
    ELSE IF e.concrete.settings.kind = "Http2"
    THEN [panic |-> FALSE, value |-> FALSE]
    ELSE IF e.concrete.settings.kind = "Http1"
    THEN [panic |-> FALSE, value |-> ~e.concrete.settings.wants_h1_upgrade]
    ELSE [panic |-> TRUE, value |-> FALSE]

\* impl Hash for Endpoint: what is fed to the hasher.
EndpointHash(e) == <<e.addr, e.identity, e.concrete>>

\* #[derive(Eq, PartialEq)] on Endpoint: field by field.
EndpointEq(a, b) ==
    /\ a.addr = b.addr
    /\ a.identity = b.identity
    /\ a.concrete = b.concrete
    /\ a.metadata = b.metadata

\* A cache keyed by Endpoint, as a sequence of [key, svc]: get_or_build
\* returns the service of the entry whose key hashes as t and equals t, and
\* builds a new service (the next identity) when there is none.
CacheGetOrBuild(cache, t) ==
    LET found == {i \in DOMAIN cache :
                      /\ EndpointHash(cache[i].key) = EndpointHash(t)
                      /\ EndpointEq(cache[i].key, t)}
    IN  IF found = {} THEN Len(cache) + 1
        ELSE cache[CHOOSE i \in found : \A j \in found : i <= j].svc

\* --- LogicalOrFallbackTarget::key
\* An accepted request: the l5d-dst-override header, the URI's authority and
\* the Host header (each absent, unparsable or a host:port), the version,
\* whether it has an Upgrade header, and the l5d-require-id header.
HostPorts == {"foo:80", "bar:8080"}

HeaderValues == {"absent", "garbage"} \cup HostPorts

Requests ==
    [override : HeaderValues, authority : HeaderValues, host : HeaderValues,
     version : {"HTTP/1.1", "HTTP/2"}, upgrade : BOOLEAN,
     require_id : {"absent", "id.example"}]

\* What the router is given: the accepting socket's target and the request.
KeyInputs == [accept : SocketAddrs, req : Requests]

\* Addr parsed from a host:port value; Err for an absent or unparsable one.
AddrFrom(value) ==
    IF value = "foo:80" THEN [ok |-> TRUE, addr |-> NameAddr("foo", 80)]
    ELSE IF value = "bar:8080" THEN [ok |-> TRUE, addr |-> NameAddr("bar", 8080)]
    ELSE [ok |-> FALSE, addr |-> NameAddr("", 0)]

http_request_l5d_override_dst_addr(req) == AddrFrom(req.override)

http_request_authority_addr(req) == AddrFrom(req.authority)

http_request_host_addr(req) == AddrFrom(req.host)

\* http::Settings::from_request.
SettingsFromRequest(req) ==
    IF req.version = "HTTP/2" THEN Http2
    ELSE Http1(TRUE, req.upgrade, req.authority # "absent")

\* key: the Logical and the fallback Endpoint; using is the source the
\* destination was taken from (what key logs with tracing::debug!).
\* Faulty variant: the authority is tried before the override header.
LogicalKeyAuthorityFirst(accept, req) ==
    LET o == http_request_l5d_override_dst_addr(req)
        a == http_request_authority_addr(req)
        h == http_request_host_addr(req)
        using == IF a.ok THEN "authority" ELSE IF o.ok THEN "dst-override"
                 ELSE IF h.ok THEN "host" ELSE "socket target"
        dst == IF a.ok THEN a.addr ELSE IF o.ok THEN o.addr
               ELSE IF h.ok THEN h.addr ELSE accept
        logical == [dst |-> dst, settings |-> SettingsFromRequest(req)]
    IN  [using |-> using, logical |-> logical,
         fallback |-> [addr |-> accept, metadata |-> EmptyMetadata,
                       identity |-> PeerIdentity(req.require_id),
                       concrete |-> Concrete(logical.dst, logical.settings)]]

LogicalKey(accept, req) ==
    LET o == http_request_l5d_override_dst_addr(req)
        a == http_request_authority_addr(req)
        h == http_request_host_addr(req)
        using == IF o.ok THEN "dst-override" ELSE IF a.ok THEN "authority"
                 ELSE IF h.ok THEN "host" ELSE "socket target"
        dst == IF o.ok THEN o.addr ELSE IF a.ok THEN a.addr
               ELSE IF h.ok THEN h.addr ELSE accept
        logical == [dst |-> dst, settings |-> SettingsFromRequest(req)]
    IN  [using |-> using, logical |-> logical,
         fallback |-> [addr |-> accept, metadata |-> EmptyMetadata,
                       identity |-> PeerIdentity(req.require_id),
                       concrete |-> Concrete(logical.dst, logical.settings)]]

KeyRequest ==
    /\ stack = "key"
    /\ outbound' = [op |-> "key", res |-> LogicalKey(input.accept, input.req)]
    /\ UNCHANGED <<stack, pendingVars, concreteVars, router, futures, layers, input, client>>

\* --- app/outbound/src/orig_proto_upgrade.rs
\* What the wrapper yields: variant "A" (orig_proto::Upgrade, with its
\* absolute_form) or "B" (the inner service as it is), inner the endpoint the
\* inner builder was given; panic when can_use_orig_proto aborted.
Upgraded(variant, inner, absolute_form) ==
    [panic |-> FALSE, variant |-> variant, inner |-> inner, absolute_form |-> absolute_form]

MakeSvcPanic(e) ==
    [panic |-> TRUE, variant |-> "None", inner |-> e, absolute_form |-> FALSE]

\* impl Make<Endpoint> for MakeSvc: make.
\* Faulty variant: was_absolute is read after the settings were forced.
MakeSvcMakeLateAbsolute(e) ==
    LET can == CanUseOrigProto(e)
        forced == [e EXCEPT !.concrete.settings = Http2]
    IN  IF can.panic THEN MakeSvcPanic(e)
        ELSE IF ~can.value THEN Upgraded("B", e, FALSE)
        ELSE Upgraded("A", forced, WasAbsoluteForm(forced.concrete.settings))

MakeSvcMake(e) ==
    LET can == CanUseOrigProto(e)
    IN  IF can.panic THEN MakeSvcPanic(e)
        ELSE IF ~can.value THEN Upgraded("B", e, FALSE)
        ELSE Upgraded("A", [e EXCEPT !.concrete.settings = Http2],
                      WasAbsoluteForm(e.concrete.settings))

\* impl Service<Endpoint> for MakeSvc: call, returning the MakeFuture.
\* Faulty variant: the inner builder is called with the settings left as
\* they were.
MakeSvcCallKeepsSettings(e) ==
    LET can == CanUseOrigProto(e)
    IN  IF can.panic
        THEN [panic |-> TRUE, can_upgrade |-> FALSE, was_absolute |-> FALSE, inner |-> e]
        ELSE [panic |-> FALSE, can_upgrade |-> can.value,
              was_absolute |-> WasAbsoluteForm(e.concrete.settings),
              inner |-> e]

MakeSvcCall(e) ==
    LET can == CanUseOrigProto(e)
    IN  IF can.panic
        THEN [panic |-> TRUE, can_upgrade |-> FALSE, was_absolute |-> FALSE, inner |-> e]
        ELSE [panic |-> FALSE, can_upgrade |-> can.value,
              was_absolute |-> WasAbsoluteForm(e.concrete.settings),
              inner |-> IF can.value THEN [e EXCEPT !.concrete.settings = Http2] ELSE e]

\* MakeFuture::poll once the inner future has yielded.
MakeFutureReady(fut) ==
    IF fut.can_upgrade THEN Upgraded("A", fut.inner, fut.was_absolute)
    ELSE Upgraded("B", fut.inner, FALSE)

\* --- actions on an Endpoint
OrigProtoMake ==
    /\ stack = "endpoint"
    /\ outbound' = [op |-> "make", res |-> MakeSvcMake(input)]
    /\ UNCHANGED <<stack, pendingVars, concreteVars, router, futures, layers, input, client>>

OrigProtoCall ==
    /\ stack = "endpoint"
    /\ outbound' = [op |-> "call", fut |-> MakeSvcCall(input), result |-> "None",
                    res |-> MakeSvcPanic(input)]
    /\ UNCHANGED <<stack, pendingVars, concreteVars, router, futures, layers, input, client>>

\* MakeFuture::poll: try_ready!(self.inner.poll()), then Either::A or B.
OrigProtoMakeFuturePoll(innerOut) ==
    /\ stack = "endpoint"
    /\ outbound.op = "call"
    /\ ~outbound.fut.panic
    /\ outbound.result \in {"None", "NotReady"}
    /\ outbound' = [outbound EXCEPT
                        !.result = innerOut,
                        !.res = IF innerOut = "Ready" THEN MakeFutureReady(outbound.fut) ELSE @]
    /\ UNCHANGED <<stack, pendingVars, concreteVars, router, futures, layers, input, client>>

EndpointCanUseOrigProto ==
    /\ stack = "endpoint"
    /\ outbound' = [op |-> "can_use_orig_proto", res |-> CanUseOrigProto(input)]
    /\ UNCHANGED <<stack, pendingVars, concreteVars, router, futures, layers, input, client>>

\* The cache holds the service built for the input; it is asked for other.
CacheLookup(other) ==
    /\ stack = "endpoint"
    /\ outbound' = [op |-> "lookup", other |-> other,
                    sameHash |-> (EndpointHash(input) = EndpointHash(other)),
                    equal |-> EndpointEq(input, other),
                    svc |-> CacheGetOrBuild(<<[key |-> input, svc |-> 1]>>, other)]
    /\ UNCHANGED <<stack, pendingVars, concreteVars, router, futures, layers, input, client>>

\* ====================================================== HTTP client factory
\* proxy/http/src/client.rs.
\*   called    MakeClient::call was invoked; panic: it reached unreachable!()
\*   fut       the MakeFuture: "None", "Http1" (holding Some(h1)),
\*             "Http1Taken" (after take()) or "Http2"
\*   oneshot   the Http2 future's Oneshot<h2::Connect, T>: "NotReady" (holds
\*             the connector and the target), "Called" (holds the connect and
\*             handshake future), "None" when there is none
\*   polled    how often the MakeFuture was polled: "never", "once", "more"
\*   result    what its last poll returned
\*   client    the Client it yielded: "None", "Http1", "Http2"
\*   connected the connect and handshake future answered Ready; connErr: Err
\*   lastReady what the Client's last poll_ready returned
NewClient ==
    [called |-> FALSE, panic |-> FALSE, fut |-> "None", oneshot |-> "None",
     polled |-> "never", result |-> "None", client |-> "None",
     connected |-> FALSE, connErr |-> FALSE, lastReady |-> "None"]

\* MakeClient::call.
MakeClientCall(c, config) ==
    LET settings == config.concrete.settings
    IN  IF settings.kind = "Http1"
        THEN [c EXCEPT !.called = TRUE, !.fut = "Http1"]
        ELSE IF settings.kind = "Http2"
        THEN [c EXCEPT !.called = TRUE, !.fut = "Http2", !.oneshot = "NotReady"]
        ELSE [c EXCEPT !.called = TRUE, !.panic = TRUE]

\* MakeFuture::poll.  readyOut is what h2::Connect's poll_ready answers and
\* connOut what the connect and handshake future answers, if polled.
\* Faulty variant: the Http2 client is yielded before the connection is up.
MakeFuturePollEager(c, readyOut, connOut) ==
    LET p == [c EXCEPT !.polled = IF @ = "never" THEN "once" ELSE "more"]
    IN  IF c.fut = "Http1"
        THEN [p EXCEPT !.fut = "Http1Taken", !.client = "Http1", !.result = "Ready"]
        ELSE IF c.fut = "Http1Taken"
        THEN [p EXCEPT !.panic = TRUE, !.result = "Panic"]
        ELSE IF c.oneshot = "NotReady" /\ readyOut # "Ready"
        THEN [p EXCEPT !.result = readyOut]
        ELSE [p EXCEPT !.oneshot = "Called", !.result = "Ready", !.client = "Http2",
                       !.connected = (connOut = "Ready"),
                       !.connErr = (connOut = "Err")]

MakeFuturePoll(c, readyOut, connOut) ==
    LET p == [c EXCEPT !.polled = IF @ = "never" THEN "once" ELSE "more"]
    IN  IF c.fut = "Http1"
        THEN \* Client::Http1(h1.take().expect("poll more than once"))
             [p EXCEPT !.fut = "Http1Taken", !.client = "Http1", !.result = "Ready"]
        ELSE IF c.fut = "Http1Taken"
        THEN [p EXCEPT !.panic = TRUE, !.result = "Panic"]
        ELSE IF c.oneshot = "NotReady" /\ readyOut # "Ready"
        THEN \* try_ready!(h2.poll()): the Oneshot's poll_ready
             [p EXCEPT !.result = readyOut]
        ELSE \* try_ready!(h2.poll()): the Oneshot's future
             [p EXCEPT !.oneshot = "Called", !.result = connOut,
                       !.client = IF connOut = "Ready" THEN "Http2" ELSE "None",
                       !.connected = (connOut = "Ready"),
                       !.connErr = (connOut = "Err")]

\* Client::poll_ready; h2Out is what the h2::Connection's poll_ready answers.
ClientPollReadyResult(c, h2Out) == IF c.client = "Http1" THEN "Ready" ELSE h2Out

\* --- actions
ClientMake ==
    /\ stack = "client"
    /\ ~client.called
    /\ client' = MakeClientCall(client, input)
    /\ UNCHANGED <<stack, pendingVars, concreteVars, router, futures, layers, input, outbound>>

\* An answer the poll does not reach is written Ready.
ClientMakeFuturePoll(readyOut, connOut) ==
    /\ stack = "client"
    /\ client.fut \in {"Http1", "Http2"}
    /\ client.result \in {"None", "NotReady"}
    /\ ~(client.fut = "Http2" /\ client.oneshot = "NotReady") => readyOut = "Ready"
    /\ ~(client.fut = "Http2" /\ readyOut = "Ready") => connOut = "Ready"
    /\ client' = MakeFuturePoll(client, readyOut, connOut)
    /\ UNCHANGED <<stack, pendingVars, concreteVars, router, futures, layers, input, outbound>>

ClientPollReady(h2Out) ==
    /\ stack = "client"
    /\ client.client # "None"
    /\ client.client = "Http1" => h2Out = "Ready"
    /\ client' = [client EXCEPT !.lastReady = ClientPollReadyResult(client, h2Out)]
    /\ UNCHANGED <<stack, pendingVars, concreteVars, router, futures, layers, input, outbound>>

NextClient ==
    \/ ClientMake
    \/ \E readyOut \in PollOutcomes, connOut \in PollOutcomes :
           ClientMakeFuturePoll(readyOut, connOut)
    \/ \E h2Out \in PollOutcomes : ClientPollReady(h2Out)

\* ================================================================== system
InitWith(splitInputs) ==
    /\ stack \in Stacks
    /\ pending = <<>>
    /\ debugBuild \in (IF stack \in {"concrete", "split"} THEN BOOLEAN ELSE {FALSE})
    /\ input \in (IF stack = "key" THEN KeyInputs
                  ELSE IF stack \in {"endpoint", "client"} THEN Endpoints
                  ELSE IF stack = "insert" THEN InsertLayers
                  ELSE IF stack = "split" THEN splitInputs
                  ELSE {"none"})
    /\ LET routes == IF stack = "split" THEN input.routes ELSE InitialRoutes
           held == IF stack = "split" THEN input.sent ELSE <<InitialRoutes>>
           w == [value |-> routes, version |-> Len(held), receivers |-> 1, ok |-> TRUE,
                 closed |-> FALSE]
       IN  /\ built = (IF stack = "split" THEN input.built ELSE <<NoAddr>>)
           /\ update = [routes |-> routes, aborted |-> FALSE, n |-> 0,
                        op |-> "none", addrs |-> <<>>, prior |-> InitialRoutes,
                        builtBefore |-> 1, result |-> "None"]
           /\ watch = w
           /\ sent = held
           \* in the split stack the reader has taken the Split state from
           \* the channel already
           /\ reader = (IF stack = "split"
                        THEN [DrainUpdates(NewReader(InitialRoutes), w)
                                  EXCEPT !.adopted = FALSE]
                        ELSE NewReader(InitialRoutes))
    /\ router = [makePoll |-> "None", lastPoll |-> "None"]
    /\ futures = <<>>
    /\ layers = [l \in Layers |-> [innerPoll |-> "None", lastPoll |-> "None"]]
    /\ outbound = (IF stack = "split"
                   THEN [op |-> "none", samp |-> <<>>, rdy |-> <<>>,
                         after |-> "None", clone |-> NoClone]
                   ELSE [op |-> "none"])
    /\ client = NewClient

Init == InitWith(SplitInputs)

NextEndpoint ==
    \/ EndpointCanUseOrigProto
    \/ OrigProtoMake
    \/ OrigProtoCall
    \/ \E innerOut \in PollOutcomes : OrigProtoMakeFuturePoll(innerOut)
    \/ stack = "endpoint" /\ \E other \in OneFieldFrom(input) : CacheLookup(other)

Next ==
    \/ NextPending
    \/ NextConcrete
    \/ NextSplit
    \/ NextRouter
    \/ NextLayers
    \/ NextInsert
    \/ KeyRequest
    \/ NextEndpoint
    \/ NextClient

Spec == Init /\ [][Next]_vars

\* ================================================================= claims
\* The service a reader's next call is due to reach, by its routes.
StashedService(r) ==
    IF r.routes.kind = "Forward" THEN r.routes.service
    ELSE IF r.next_split_index \in 1..Len(r.routes.services)
    THEN r.routes.services[r.next_split_index].svc
    ELSE NoIndex

\* C1: in Split, a call made right after a poll_ready that returned Ready is
\* dispatched to the very backend that answered Ready inside that poll_ready,
\* without a panic, and every call in Split leaves next_split_index empty, so
\* a stashed index serves one call only.
C1_CallTakesStashedIndex ==
    /\ (reader.callKind = "Split" /\ reader.obeyed) =>
           /\ ~reader.aborted
           /\ reader.served # NoIndex
           /\ reader.served = reader.expected
    /\ reader.callKind = "Split" => reader.next_split_index = NoIndex

C1_Witness ==
    /\ reader.callKind = "Split" /\ reader.obeyed
    /\ Len(reader.routes.services) = 2
    /\ reader.served = reader.routes.services[2].svc
    /\ reader.next_split_index = NoIndex

\* C2: when the caller calls right after a poll_ready that returned Ready,
\* Pending, the profile-concrete reader (Forward and Split) and the Router
\* call an inner service only if that service's own latest poll_ready, since
\* it was last called, returned Ready; the Router's ResponseFuture calls the
\* built service only after the service's poll_ready returned Ready.
C2_CallOnlyAfterInnerReady ==
    /\ \A h \in DOMAIN pending :
           (pending[h].callIn # "None" /\ pending[h].obeyed) =>
               (pending[h].callIn = "Made" /\ pending[h].servedFresh)
    /\ (reader.callKind # "None" /\ reader.obeyed) =>
           (reader.servedFresh /\ reader.served = reader.expected)
    /\ \A i \in DOMAIN futures :
           /\ ~futures[i].unready
           /\ futures[i].obeyed => futures[i].makeReady

C2_Witness ==
    /\ reader.callKind = "Split" /\ reader.obeyed /\ reader.servedFresh
    /\ reader.ver = 3
    /\ Len(reader.routes.services) = 2
    /\ reader.served = reader.routes.services[2].svc

\* C3: a wrapper's poll_ready returns Ready only if the service it fronts
\* answered Ready in that invocation (the made service for Pending, the sole
\* or the sampled service for the reader, the builder for the Router, the
\* inner for Insert and MakeSvc), and an inner poll_ready error is returned
\* as the wrapper's error.
C3_ReadyOnlyIfInnerReady ==
    /\ \A h \in DOMAIN pending :
           LET p == pending[h]
               polledSvc == p.polled # <<>> /\ p.polled[Len(p.polled)].what = "svc"
           IN  /\ p.lastPoll = "Ready" => (polledSvc /\ p.polled[Len(p.polled)].out = "Ready")
               /\ (p.lastPoll # "None" /\ polledSvc /\ p.polled[Len(p.polled)].out = "Err")
                      => p.lastPoll = "Err"
    /\ reader.lastPoll = "Ready" =>
           (reader.polledReady # NoIndex /\ reader.polledReady = StashedService(reader))
    /\ reader.polledErr => reader.lastPoll = "Err"
    /\ router.lastPoll = "Ready" => router.makePoll = "Ready"
    /\ router.makePoll = "Err" => router.lastPoll = "Err"
    /\ \A l \in Layers :
           /\ layers[l].lastPoll = "Ready" => layers[l].innerPoll = "Ready"
           /\ layers[l].innerPoll = "Err" => layers[l].lastPoll = "Err"

C3_Witness ==
    /\ reader.lastPoll = "Ready"
    /\ reader.routes.kind = "Split"
    /\ Len(reader.routes.services) = 2
    /\ reader.next_split_index = 2
    /\ reader.polledReady = reader.routes.services[2].svc

\* C4: a handle is made in Making; a handle in Made stays in Made whatever
\* is invoked on it, and the constructor future is not polled once it has
\* yielded the service.
C4_MadeIsTerminal ==
    [][ /\ \A h \in DOMAIN pending :
               /\ h \in DOMAIN pending'
               /\ pending[h].st = "Made" => pending'[h].st = "Made"
        /\ \A h \in DOMAIN pending' :
               /\ h \notin DOMAIN pending => pending'[h].st = "Making"
               /\ ~pending'[h].stale
               /\ (h \in DOMAIN pending /\ pending[h].st = "Made"
                      /\ pending'[h].polled # pending[h].polled) =>
                      \A i \in 1..Len(pending'[h].polled) :
                          pending'[h].polled[i].what = "svc" ]_vars

C4_Witness ==
    \E h \in DOMAIN pending :
        /\ pending[h].st = "Made"
        /\ pending[h].calls >= 1
        /\ pending[h].lastPoll = "NotReady"
        /\ pending[h].polled = <<Polled("svc", "NotReady")>>

\* C5: call on a handle in Making panics and forwards nothing: a handle in
\* Making has forwarded no request, also when its constructor future is
\* already complete.
C5_CallInMakingAborts ==
    \A h \in DOMAIN pending :
        /\ pending[h].st = "Making" => pending[h].calls = 0
        /\ pending[h].callIn = "Making" => (pending[h].aborted /\ pending[h].calls = 0)
        /\ pending[h].aborted => pending[h].callIn = "Making"

C5_Witness ==
    \E h \in DOMAIN pending :
        /\ pending[h].callIn = "Making"
        /\ pending[h].fut = "Ready"
        /\ pending[h].aborted

\* C6: what one poll_ready on a Pending handle polls and returns.  Polling a
\* constructor future that is not ready returns NotReady and leaves Making;
\* one that yields makes the handle Made and the made service is polled in
\* the same invocation, its answer being the result; in Made only the made
\* service is polled and its answer is the result.
C6_PollReadyAdvances ==
    \A h \in DOMAIN pending :
        LET p == pending[h]
        IN  p.lastPoll # "None" =>
                \/ /\ p.polled = <<Polled("fut", "NotReady")>>
                   /\ p.st = "Making" /\ p.lastPoll = "NotReady"
                \/ /\ p.polled = <<Polled("fut", "Err")>>
                   /\ p.st = "Making" /\ p.lastPoll = "Err"
                \/ /\ Len(p.polled) = 2
                   /\ p.polled[1] = Polled("fut", "Ready")
                   /\ p.polled[2] = Polled("svc", p.lastPoll)
                   /\ p.st = "Made" /\ p.fut = "Taken" /\ p.svcPoll = p.lastPoll
                \/ /\ p.polled = <<Polled("svc", p.lastPoll)>>
                   /\ p.st = "Made" /\ p.fut = "Taken" /\ p.svcPoll = p.lastPoll

C6_Witness ==
    \E h \in DOMAIN pending :
        /\ pending[h].polled = <<Polled("fut", "Ready"), Polled("svc", "NotReady")>>
        /\ pending[h].st = "Made"
        /\ pending[h].lastPoll = "NotReady"

\* C7: a poll_ready leaves the reader with the channel's latest value and
\* version; the reader's version never decreases and its routes are the value
\* of that version, changing only with it; a poll_ready that adopts a new
\* state leaves next_split_index empty unless it stashed, under the new state,
\* the backend that answered Ready in this very invocation.
C7_ReaderFollowsWriter ==
    [][ LET r == reader
            q == reader'
        IN  /\ q.ver >= r.ver
            /\ q.ver = r.ver => (q.routes = r.routes /\ ~(q.adopted /\ q # r))
            /\ (q # r /\ q.lastPoll # "None") =>
                   /\ q.ver = watch.version
                   /\ q.routes = watch.value
                   /\ q.routes = sent[q.ver]
            /\ q.ver # r.ver =>
                   /\ q.adopted
                   /\ \/ q.next_split_index = NoIndex
                      \/ /\ q.lastPoll = "Ready"
                         /\ q.routes.kind = "Split"
                         /\ q.polledReady = StashedService(q) ]_vars

C7_Witness ==
    /\ reader.adopted
    /\ reader.ver = 3
    /\ reader.routes.kind = "Split"
    /\ reader.lastPoll = "NotReady"
    /\ reader.next_split_index = NoIndex
    /\ update.n = 2

\* C8: set_split with exactly one address a leaves the writer in
\* Forward { addr: Some(a) } with a service built for a, whatever the prior
\* state was.
C8_SingleAddrForwards ==
    (update.op = "set_split" /\ Len(update.addrs) = 1 /\ update.result # "Panic") =>
        /\ update.routes.kind = "Forward"
        /\ update.routes.addr = update.addrs[1].addr
        /\ built[update.routes.service] = update.addrs[1].addr

\* C9: every Split state the writer holds or the reader adopted has at least
\* two services and a positive weight sum.
WellFormedSplit(routes) ==
    routes.kind = "Split" =>
        (Len(routes.services) >= 2 /\ SumWeights(routes.distribution) > 0)

C9_SplitHasTwoServices ==
    /\ WellFormedSplit(update.routes)
    /\ WellFormedSplit(reader.routes)

\* C10: set_split from a prior Split over address set A builds exactly one
\* service for every address of the list that is not in A and none for the
\* others, keeps the prior service of every address of the list that is in
\* A, and the new state holds the addresses of the list and no other.
AddrsOf(services) == {services[i].addr : i \in 1..Len(services)}

ListAddrs(addrs) == {addrs[i].addr : i \in 1..Len(addrs)}

C10_ReuseOnReconfigure ==
    (update.op = "set_split" /\ update.prior.kind = "Split" /\ update.result # "Panic") =>
        LET A == AddrsOf(update.prior.services)
            newBuilds == (update.builtBefore + 1)..Len(built)
        IN  /\ \A x \in ListAddrs(update.addrs) \ A :
                   Cardinality({i \in newBuilds : built[i] = x}) = 1
            /\ \A i \in newBuilds : built[i] \in ListAddrs(update.addrs) \ A
            /\ \A x \in ListAddrs(update.addrs) \cap A :
                   MapGet(update.routes.services, x) = MapGet(update.prior.services, x)
            /\ AddrsOf(update.routes.services) = ListAddrs(update.addrs)

\* C11: a writer call that requests the state already held (set_forward in
\* Forward { addr: None }, set_split([a]) in Forward { addr: Some(a) }) returns
\* Ok, builds no service, leaves the channel and the writer's state as they
\* were, and the reader's next poll_ready drains the channel to what it would
\* have without the call; any other set_forward builds one service from the
\* original target, leaves the writer in Forward { addr: None } with it and
\* broadcasts that state, which the channel holds as its next version when a
\* receiver is left.
AlreadyHeld(routes, op, addrs) ==
    /\ routes.kind = "Forward"
    /\ \/ op = "set_forward" /\ routes.addr = NoAddr
       \/ op = "set_split" /\ Len(addrs) = 1 /\ routes.addr = addrs[1].addr

C11_AlreadySetIsNoOp ==
    [][ update'.n # update.n =>
          /\ AlreadyHeld(update.routes, update'.op, update'.addrs) =>
                 /\ update'.result = "Ok"
                 /\ built' = built
                 /\ watch' = watch
                 /\ sent' = sent
                 /\ update'.routes = update.routes
                 /\ reader' = reader
                 /\ DrainUpdates(reader', watch') = DrainUpdates(reader, watch)
          /\ (update'.op = "set_forward"
                 /\ ~AlreadyHeld(update.routes, update'.op, update'.addrs)) =>
                 /\ built' = Append(built, NoAddr)
                 /\ update'.routes = Forward(NoAddr, Len(built'))
                 /\ watch.receivers > 0 =>
                        /\ watch'.value = update'.routes
                        /\ watch'.version = watch.version + 1
                        /\ sent' = Append(sent, update'.routes)
                        /\ DrainUpdates(reader', watch').next_split_index = NoIndex
                        /\ DrainUpdates(reader', watch').routes = update'.routes ]_vars

C11_Witness ==
    /\ update.n = 2
    /\ update.op = "set_split"
    /\ AlreadyHeld(update.prior, update.op, update.addrs)
    /\ update.prior.addr # NoAddr
    /\ update.routes = update.prior
    /\ update.result = "Ok"
    /\ Len(built) = update.builtBefore
    /\ reader.next_split_index = NoIndex
    /\ reader.ver = 2

\* C12 as claimed: a writer call made when no receiver is left returns
\* LostService.
C12_LostServiceAlways ==
    [][ (update'.n # update.n /\ watch.receivers = 0) =>
            update'.result = "LostService" ]_vars

\* C12: a writer call made when no receiver is left returns Ok when it
\* requests the state already held, aborts when set_split is given an invalid
\* weight list, and returns LostService in every other case; the channel
\* keeps its value and version.
C12_LostServiceOnBroadcast ==
    [][ (update'.n # update.n /\ watch.receivers = 0) =>
          LET held == AlreadyHeld(update.routes, update'.op, update'.addrs)
              invalid == /\ update'.op = "set_split"
                         /\ ~(update.routes.kind = "Forward" /\ Len(update'.addrs) = 1)
                         /\ SumWeights(WeightsOf(update'.addrs)) = 0
          IN  /\ update'.result = "Ok" <=> held
              /\ update'.result = "Panic" <=> invalid
              /\ update'.result = "LostService" <=> (~held /\ ~invalid)
              /\ watch' = [watch EXCEPT !.ok = (IF held \/ invalid THEN watch.ok ELSE FALSE)]
              /\ sent' = sent ]_vars

C12_Witness ==
    /\ watch.receivers = 0
    /\ update.n = 2
    /\ update.result = "LostService"
    /\ update.routes.kind = "Split"
    /\ update.prior.kind = "Forward"
    /\ watch.value = update.prior
    /\ Len(sent) = 2

\* C13: a ResponseFuture is made with key = KeyFn(req) for the request the
\* Router was called with.  It dispatches nothing while in Make and at most
\* one request ever, the one it was called with, from Respond and on a
\* service whose poll_ready had just answered Ready; a future that completed
\* with a response has dispatched exactly once; once in Respond it stays
\* there, and a dispatched request stays dispatched and is not sent again.
Dispatched(f) == f.sentReq # <<>>

C13_DispatchOnceAfterReady ==
    [][ \A i \in DOMAIN futures' :
            LET g == futures'[i]
            IN  /\ g.key = KeyOf(g.arg)
                /\ Len(g.sentReq) <= 1
                /\ Dispatched(g) =>
                       (g.sentReq[1] = g.arg /\ g.st = "Respond" /\ g.oneshot = "Called")
                /\ g.st = "Make" => (~Dispatched(g) /\ g.req = g.arg /\ g.oneshot = "None")
                /\ ~g.unready
                /\ (g.done /\ g.result = "Ready") => Dispatched(g)
                /\ i \in DOMAIN futures =>
                       LET f == futures[i]
                       IN  /\ f.st = "Respond" => g.st = "Respond"
                           /\ Dispatched(f) => g.sentReq = f.sentReq
                           /\ (Dispatched(g) /\ ~Dispatched(f)) => g.svcPoll = "None" ]_vars

C13_Witness ==
    \E i \in DOMAIN futures :
        /\ futures[i].arg = "req2"
        /\ futures[i].key = "k2"
        /\ futures[i].st = "Respond"
        /\ futures[i].sentReq = <<"req2">>
        /\ futures[i].result = "NotReady"
        /\ ~futures[i].done

\* C14: an error answered by the builder future, by the built service's
\* poll_ready or by the response future is the result of the poll that met
\* it and completes the ResponseFuture; a future whose builder future failed
\* is still in Make, holds its request and has dispatched none; one whose
\* service failed in poll_ready has dispatched none either.
C14_ErrorsSurface ==
    \A i \in DOMAIN futures :
        LET f == futures[i]
        IN  /\ f.errFrom # "none" => (f.result = "Err" /\ f.done)
            /\ f.result = "Err" => f.errFrom # "none"
            /\ f.errFrom = "fut" =>
                   (f.st = "Make" /\ f.sentReq = <<>> /\ f.req = f.arg)
            /\ f.errFrom = "svc" => (f.st = "Respond" /\ f.sentReq = <<>>)
            /\ f.errFrom = "resp" => f.sentReq = <<f.arg>>

C14_Witness ==
    \E i \in DOMAIN futures :
        /\ futures[i].errFrom = "fut"
        /\ futures[i].result = "Err"
        /\ futures[i].done
        /\ futures[i].sentReq = <<>>
        /\ futures[i].st = "Make"

\* C15: the Logical key's destination comes from the l5d-dst-override header
\* when that parses, else from the authority when that parses, else from the
\* Host header when that parses, else from the accepting socket's target: a
\* source is used exactly when it parses and every source before it is absent
\* or unparsable, the destination is the used source's address, and a request
\* whose override, authority and host all parse is keyed by the override.
Parses(value) == value \in HostPorts

C15_KeyPriority ==
    outbound.op = "key" =>
        LET req == input.req
            res == outbound.res
        IN  /\ res.using = "dst-override" <=> Parses(req.override)
            /\ res.using = "authority" <=>
                   (~Parses(req.override) /\ Parses(req.authority))
            /\ res.using = "host" <=>
                   (~Parses(req.override) /\ ~Parses(req.authority) /\ Parses(req.host))
            /\ res.using = "socket target" <=>
                   (~Parses(req.override) /\ ~Parses(req.authority) /\ ~Parses(req.host))
            /\ res.logical.dst =
                   (CASE res.using = "dst-override" -> AddrFrom(req.override).addr
                      [] res.using = "authority" -> AddrFrom(req.authority).addr
                      [] res.using = "host" -> AddrFrom(req.host).addr
                      [] OTHER -> input.accept)
            /\ (Parses(req.override) /\ Parses(req.authority) /\ Parses(req.host)) =>
                   res.logical.dst = AddrFrom(req.override).addr

C15_Witness ==
    /\ outbound.op = "key"
    /\ input.req.override = "bar:8080"
    /\ input.req.authority = "foo:80"
    /\ input.req.host = "foo:80"
    /\ outbound.res.logical.dst = NameAddr("bar", 8080)
    /\ outbound.res.using = "dst-override"

\* C16: on an endpoint whose settings are Http1 or Http2, can_use_orig_proto
\* returns, without a panic, true exactly when the protocol hint is not
\* Unknown and the settings are Http1 with wants_h1_upgrade false.
C16_CanUseOrigProto ==
    (outbound.op = "can_use_orig_proto" /\ input.concrete.settings.kind # "NotHttp") =>
        /\ ~outbound.res.panic
        /\ outbound.res.value <=>
               /\ input.metadata.protocol_hint # "Unknown"
               /\ input.concrete.settings.kind = "Http1"
               /\ ~input.concrete.settings.wants_h1_upgrade

C16_Witness ==
    /\ outbound.op = "can_use_orig_proto"
    /\ input.concrete.settings = Http1(FALSE, FALSE, TRUE)
    /\ input.metadata.protocol_hint = "Http2"
    /\ outbound.res.value

\* C17: on an endpoint whose settings are NotHttp, can_use_orig_proto panics
\* and returns no boolean, whatever the protocol hint.
C17_NotHttpAborts ==
    (outbound.op = "can_use_orig_proto" /\ input.concrete.settings.kind = "NotHttp") =>
        outbound.res.panic

\* C18: looking up an endpoint that differs from the cached one only in
\* metadata finds equal hashes and equal keys and returns the service built
\* for the cached one.
DiffersOnlyInMetadata(a, b) ==
    /\ a.addr = b.addr
    /\ a.identity = b.identity
    /\ a.concrete = b.concrete
    /\ a.metadata # b.metadata

C18_MetadataIgnored ==
    (outbound.op = "lookup" /\ DiffersOnlyInMetadata(input, outbound.other)) =>
        /\ outbound.sameHash
        /\ outbound.equal
        /\ outbound.svc = 1

\* C19: the orig-proto wrapper, through make and through call followed by a
\* MakeFuture that yields, gives Either::A exactly when can_use_orig_proto
\* returned true for the endpoint it was given; with Either::A the inner
\* builder got the endpoint with settings Http2 and every other field as
\* given, and the Upgrade's absolute_form is the given settings'
\* was_absolute_form; otherwise it gives Either::B and the inner builder got
\* the endpoint as given.  A MakeFuture that has not yielded gives neither.
Yielded ==
    \/ outbound.op = "make" /\ ~outbound.res.panic
    \/ outbound.op = "call" /\ outbound.result = "Ready"

C19_UpgradeIffCanUseOrigProto ==
    /\ Yielded =>
           LET res == outbound.res
               can == CanUseOrigProto(input)
           IN  /\ ~can.panic
               /\ res.variant \in {"A", "B"}
               /\ res.variant = "A" <=> can.value
               /\ res.variant = "A" =>
                      /\ res.inner.concrete.settings = Http2
                      /\ res.inner.addr = input.addr
                      /\ res.inner.identity = input.identity
                      /\ res.inner.metadata = input.metadata
                      /\ res.inner.concrete.dst = input.concrete.dst
                      /\ res.absolute_form = input.concrete.settings.was_absolute_form
               /\ res.variant = "B" => res.inner = input
    /\ (outbound.op \in {"make", "call"} /\ ~Yielded) => outbound.res.variant = "None"
    /\ outbound.op = "call" => outbound.fut.panic = CanUseOrigProto(input).panic

C19_Witness ==
    /\ outbound.op = "call"
    /\ outbound.result = "Ready"
    /\ input.concrete.settings = Http1(TRUE, FALSE, TRUE)
    /\ outbound.res.variant = "A"
    /\ outbound.res.absolute_form
    /\ outbound.res.inner.concrete.settings = Http2

\* C20: the Client a MakeFuture yields is of the kind of the endpoint's
\* settings.  A MakeFuture made for Http1 is complete with an Http1 client
\* once it has been polled, at its first poll and with no connection polled,
\* and that client's poll_ready returns Ready; an Http2 client exists only
\* once the connect and handshake future has answered Ready, and an error of
\* that future is the MakeFuture's result, with no client; for NotHttp
\* MakeClient::call panics and there is neither a future nor a client.
C20_ClientBySettings ==
    stack = "client" =>
        LET kind == input.concrete.settings.kind
            c == client
        IN  /\ c.client # "None" => c.client = kind
            /\ c.called => (c.fut = "None" <=> kind = "NotHttp")
            /\ (kind = "Http1" /\ c.polled # "never") =>
                   /\ c.polled = "once"
                   /\ c.client = "Http1"
                   /\ c.result = "Ready"
                   /\ c.oneshot = "None" /\ ~c.connected /\ ~c.connErr
            /\ (c.client = "Http1" /\ c.lastReady # "None") => c.lastReady = "Ready"
            /\ kind = "Http2" => (c.client = "Http2" <=> c.connected)
            /\ c.connected => (c.result = "Ready" /\ c.oneshot = "Called")
            /\ c.connErr => (c.result = "Err" /\ c.client = "None")
            /\ (kind = "NotHttp" /\ c.called) => (c.panic /\ c.client = "None")
            /\ c.panic => kind = "NotHttp"

C20_Witness ==
    /\ stack = "client"
    /\ input.concrete.settings = Http2
    /\ client.client = "Http2"
    /\ client.polled = "more"
    /\ client.connected
    /\ client.lastReady = "NotReady"

\* ------------------------------------------------------------------ C21
\* The value the Lazy of the Insert under test produces at its i-th
\* invocation, from what the layer was built with.
LazyValueAt(i) ==
    CASE input.form = "val" -> input.v
      [] input.form = "fn" -> input.results[((i - 1) % Len(input.results)) + 1]
      [] OTHER -> outbound.made

\* C21: every request given to Insert::call reaches the inner service exactly
\* once and in order, with the Lazy's value (the fixed value, the result of
\* one more invocation of the function, or the target the service was made
\* for) as the value of its type in the extensions, whatever was there
\* before, and with everything else as it was given.
C21_InsertCarriesValue ==
    (stack = "insert" /\ outbound.op # "none") =>
        /\ Len(outbound.received) = Len(outbound.reqs)
        /\ outbound.produced = Len(outbound.reqs)
        /\ \A i \in 1..Len(outbound.reqs) :
               /\ outbound.received[i].extensions.V = LazyValueAt(i)
               /\ outbound.received[i].extensions.U = outbound.reqs[i].extensions.U
               /\ outbound.received[i].id = outbound.reqs[i].id

\* The target form has forwarded two requests, the first of which came with
\* another value of the target's type and an unrelated extension.
C21_Witness ==
    /\ stack = "insert"
    /\ input.form = "target"
    /\ outbound.op = "insert_call"
    /\ Len(outbound.received) = 2
    /\ outbound.reqs[1].extensions.V \notin {"absent", outbound.made}
    /\ outbound.reqs[1].extensions.U = "u1"
    /\ outbound.received[1].extensions.V = outbound.made

\* ------------------------------------------------------------------ C23
\* What the k-th sample of the last poll_ready met: the answer of the backend
\* at the sampled position, or no backend at all.
SampledAnswer(k) ==
    IF outbound.samp[k] > Len(reader.routes.services) THEN "OutOfRange"
    ELSE outbound.rdy[outbound.samp[k]]

\* The iterations of the last poll_ready, services.len() of them at most,
\* whose sample met something other than a backend that is not ready.
Decisive == {k \in 1..Len(reader.routes.services) : SampledAnswer(k) # "NotReady"}

\* C23: a poll_ready in Split state that returns looks at the first
\* services.len() samples only.  It returns what the first sampled backend that
\* is ready or fails answers: Ready with that backend's position stashed, or
\* the error; and NotReady when all of these samples met backends that are not
\* ready, whatever the other backends and a further sample would answer.
C23_PollSplitSamples ==
    (stack = "split" /\ outbound.op = "split_poll_ready" /\ reader.lastPoll # "Panic") =>
        IF Decisive = {}
        THEN reader.lastPoll = "NotReady"
        ELSE LET k == CHOOSE j \in Decisive : \A i \in Decisive : j <= i
                 idx == outbound.samp[k]
             IN  /\ reader.lastPoll = SampledAnswer(k)
                 /\ reader.lastPoll \in {"Ready", "Err"}
                 /\ reader.lastPoll = "Ready" =>
                        /\ reader.next_split_index = idx
                        /\ reader.polledReady = reader.routes.services[idx].svc

\* poll_ready returned NotReady after sampling the first of two backends
\* twice, while the second backend, which the next sample would have hit,
\* was ready.
C23_Witness ==
    /\ stack = "split"
    /\ outbound.op = "split_poll_ready"
    /\ Len(reader.routes.services) = 2
    /\ outbound.samp = <<1, 1, 2>>
    /\ outbound.rdy = <<"NotReady", "Ready">>
    /\ reader.lastPoll = "NotReady"

\* ------------------------------------------------------------------ C24
\* A reader in Split state that is polled again and again, in an environment
\* in which the backend at position good answers Ready to every poll_ready
\* and no sampled backend fails.
LiveInputs ==
    UNION {{[routes |-> t.routes, built |-> t.built, sent |-> t.sent, good |-> g]
                : g \in GoodBackends(t.routes)} : t \in SplitStates}

LiveInit == InitWith(LiveInputs) /\ stack = "split"

NoSampledFailure(samp, rdy) ==
    \A k \in 1..Len(rdy) : samp[k] <= Len(rdy) => rdy[samp[k]] # "Err"

LivePollReady(samp, rdy) ==
    /\ rdy[input.good] = "Ready"
    /\ NoSampledFailure(samp, rdy)
    /\ SplitPollReady(samp, rdy)

\* poll_ready invocations whose first sample is the backend that stays ready:
\* fair sampling returns every position of positive weight again and again.
LivePollGood ==
    \E samp \in SampleStreams(reader.routes),
       rdy \in [1..Len(reader.routes.services) -> PollOutcomes] :
        samp[1] = input.good /\ LivePollReady(samp, rdy)

\* The caller keeps the contract: call follows a poll_ready that returned Ready.
LiveCall == reader.lastPoll = "Ready" /\ SplitCall

LiveNext ==
    \/ \E samp \in SampleStreams(reader.routes),
          rdy \in [1..Len(reader.routes.services) -> PollOutcomes] :
           LivePollReady(samp, rdy)
    \/ LiveCall

LiveSpec == LiveInit /\ [][LiveNext]_vars /\ WF_vars(LivePollGood)

\* C24: in Split state, with a backend of positive weight that stays ready,
\* no sampled backend failing, and poll_ready invoked again and again under
\* fair sampling, poll_ready eventually returns Ready.
C24_EventuallyReady ==
    <>(outbound.op = "split_poll_ready" /\ reader.lastPoll = "Ready")

\* ------------------------------------------------------------------ C25
\* C25: when the writer has broadcast a new state between a poll_ready that
\* returned Ready and the call that follows it, the call does not abort and
\* goes to the service that answered Ready in that poll_ready, the reader
\* still holds the state it polled under, and the channel's newer state is
\* left for the next poll_ready to take.
C25_UpdateBetweenPollAndCall ==
    (stack = "concrete" /\ reader.callKind # "None" /\ reader.obeyed /\ reader.behind) =>
        /\ ~reader.aborted
        /\ reader.served = reader.expected
        /\ reader.servedFresh
        /\ reader.next_split_index = NoIndex
        /\ reader.ver < watch.version
        /\ reader.routes = sent[reader.ver]

\* A reader polled Ready in Split state, the writer then went back to
\* Forward, and the call was dispatched to the Split backend polled before.
C25_Witness ==
    /\ stack = "concrete"
    /\ reader.callKind = "Split"
    /\ reader.obeyed
    /\ reader.behind
    /\ reader.served = reader.expected
    /\ reader.served # NoIndex
    /\ watch.value.kind = "Forward"
    /\ update.op = "set_forward"

\* ------------------------------------------------------------------ C26
PairwiseDistinct(addrs) ==
    \A i, j \in 1..Len(addrs) : addrs[i].addr = addrs[j].addr => i = j

\* C26: after a set_split with two or more pairwise distinct addresses that
\* returned, from Forward and from Split alike, the new state is a Split in
\* which, for every position i of the list, the service at position i was
\* built for addrs[i].addr and the distribution carries addrs[i].weight at i.
C26_PositionsFollowAddrs ==
    (/\ update.op = "set_split"
     /\ update.result \in {"Ok", "LostService"}
     /\ Len(update.addrs) >= 2
     /\ PairwiseDistinct(update.addrs)) =>
        /\ update.routes.kind = "Split"
        /\ Len(update.routes.services) = Len(update.addrs)
        /\ Len(update.routes.distribution) = Len(update.addrs)
        /\ \A i \in 1..Len(update.addrs) :
               /\ update.routes.services[i].addr = update.addrs[i].addr
               /\ built[update.routes.services[i].svc] = update.addrs[i].addr
               /\ update.routes.distribution[i] = update.addrs[i].weight

\* set_split on a Split state moved a reused address from the second
\* position to the first and added a new one behind it.
C26_Witness ==
    /\ update.op = "set_split"
    /\ update.result = "Ok"
    /\ update.prior.kind = "Split"
    /\ Len(update.prior.services) = 2
    /\ Len(update.addrs) = 2
    /\ PairwiseDistinct(update.addrs)
    /\ update.addrs[1].addr = update.prior.services[2].addr
    /\ update.routes.services[1].svc = update.prior.services[2].svc
    /\ update.routes.services[2].svc > update.builtBefore
    /\ update.routes.distribution = <<2, 1>>

\* ------------------------------------------------------------------ C27
\* C27: once the constructor future of a Pending handle has failed, the
\* handle is in Making and stays there, no inner service has been polled or
\* called, and a poll_ready that met the failure polled the future only and
\* returned the error.
C27_ConstructorFailure ==
    \A h \in DOMAIN pending :
        LET p == pending[h]
        IN  p.fut = "Err" =>
                /\ p.st = "Making"
                /\ p.svcPoll = "None"
                /\ p.calls = 0
                /\ \A i \in 1..Len(p.polled) : p.polled[i].what = "fut"
                /\ (p.polled # <<>> /\ p.polled[1].out = "Err") =>
                       /\ Len(p.polled) = 1
                       /\ p.callIn = "None" => p.lastPoll = "Err"

\* A handle whose constructor failed returned the error from poll_ready, and
\* the call made regardless aborted in Making.
C27_Witness ==
    \E h \in DOMAIN pending :
        /\ pending[h].fut = "Err"
        /\ pending[h].polled = <<Polled("fut", "Err")>>
        /\ pending[h].st = "Making"
        /\ pending[h].callIn = "Making"
        /\ pending[h].aborted

\* ------------------------------------------------------------------ C28
\* C28: a clone of a reader in Split state starts without a stashed index,
\* also when the reader it is taken from holds one, and a call of the clone
\* is dispatched to a backend only after a poll_ready of the clone itself
\* has returned Ready.
C28_CloneOwnsReadiness ==
    (stack = "split" /\ outbound.clone.taken) =>
        /\ outbound.op = "clone" => reader.next_split_index = NoIndex
        /\ (reader.callKind = "Split" /\ reader.served # NoIndex) => outbound.clone.ready

\* ------------------------------------------------------------------ C29
\* C29: every Split state the writer reaches with set_split, and the reader
\* takes from it, has as many services as its distribution has positions,
\* whatever list set_split was given, and neither poll_ready nor call aborts
\* on a split index without a service (the only abort of a poll_ready in Split
\* state is the debug assertion).
C29_SplitIndexInRange ==
    stack = "concrete" =>
        /\ update.routes.kind = "Split" =>
               Len(update.routes.services) = Len(update.routes.distribution)
        /\ reader.routes.kind = "Split" =>
               Len(reader.routes.services) = Len(reader.routes.distribution)
        /\ (reader.lastPoll = "Panic" /\ reader.routes.kind = "Split") =>
               (debugBuild /\ Len(reader.routes.services) <= 1)

\* ------------------------------------------------------------------ C30
\* C30: every set_split call returns Ok or LostService, whatever the list and
\* the prior state, and leaves the writer able to take further requests.
C30_SetSplitReturns ==
    update.op = "set_split" =>
        (update.result \in {"Ok", "LostService"} /\ ~update.aborted)

\* ------------------------------------------------------------------ C31
\* C31: a reader whose poll_ready has returned NotReady holds no stashed split
\* index, and a call that follows a poll_ready that returned NotReady in Split
\* state aborts as a contract violation and reaches no backend.
C31_NotReadyLeavesNoIndex ==
    /\ reader.lastPoll = "NotReady" => reader.next_split_index = NoIndex
    /\ (/\ stack = "split"
        /\ outbound.op = "split_call"
        /\ outbound.after = "NotReady"
        /\ reader.callKind = "Split") =>
           (reader.aborted /\ reader.served = NoIndex)

\* C32: once the Update (the channel's Sender) is dropped, a poll_ready of the
\* reader leaves it on the last broadcast state, the channel reports no error,
\* and the outcome is that of the backends of that state: Err only when a
\* backend failed, Ready only when a backend of that state answered Ready.
C32_ServesAfterUpdateDropped ==
    (stack = "concrete" /\ reader.sawClosed /\ reader.lastPoll # "None") =>
        /\ watch.closed
        /\ reader.ver = watch.version
        /\ reader.routes = watch.value
        /\ reader.routes = sent[Len(sent)]
        /\ ~reader.recvErr
        /\ reader.lastPoll = "Err" => reader.polledErr
        /\ reader.lastPoll = "Ready" =>
               IF reader.routes.kind = "Forward"
               THEN reader.polledReady = reader.routes.service
               ELSE \E i \in 1..Len(reader.routes.services) :
                        reader.polledReady = reader.routes.services[i].svc

C32_Witness ==
    /\ stack = "concrete"
    /\ watch.closed
    /\ reader.sawClosed
    /\ reader.adopted
    /\ reader.lastPoll = "Ready"
    /\ reader.routes.kind = "Split"
    /\ Len(reader.routes.services) > 1

\* C33: Make::make and Service::call followed by MakeFuture::poll agree on
\* every endpoint: both abort or neither does, both hand the same endpoint to
\* the inner builder, and what the future yields once the inner future is
\* Ready is the Either, with the same absolute_form, that make returns; while
\* the inner future is NotReady or has failed, the future has yielded nothing
\* and reports what the inner future reported.
C33_MakeAgreesWithCall ==
    stack = "endpoint" =>
        /\ outbound.op = "make" =>
               LET fut == MakeSvcCall(input)
                   res == outbound.res
               IN  /\ res.panic = fut.panic
                   /\ res.inner = fut.inner
                   /\ ~res.panic => res = MakeFutureReady(fut)
        /\ outbound.op = "call" =>
               LET made == MakeSvcMake(input)
                   fut == outbound.fut
               IN  /\ fut.panic = made.panic
                   /\ fut.inner = made.inner
                   /\ outbound.result = "Ready" => outbound.res = made
                   /\ outbound.result # "Ready" => outbound.res.variant = "None"
                   /\ fut.panic => outbound.result = "None"

C33_Witness ==
    /\ stack = "endpoint"
    /\ outbound.op = "call"
    /\ outbound.result = "Ready"
    /\ ~outbound.fut.can_upgrade
    /\ outbound.fut.was_absolute
    /\ outbound.res.variant = "B"
    /\ ~outbound.res.absolute_form
    /\ outbound.res = MakeSvcMake(input)

====
